---- MODULE Spec2Model ----
(***************************************************************************)
(* Verification model of the document ingestion pipeline of                *)
(* process-gpt-memento: PDF layout reconstruction, chunking, image         *)
(* placeholder linking and the Drive folder indexing job.                  *)
(*                                                                         *)
(* Text is a sequence of items <<kind, a, b>>.  An ordinary character c is *)
(* <<c, 0, 0>>.  The placeholder token __IMAGE_PLACEHOLDER_p{p}_i{i}__ is  *)
(* the three items  "__IMAGE_PLACEHOLDER_" , "p{p}_i{i}" , "__"  so that a *)
(* cut inside a token leaves a fragment the linker's pattern cannot match. *)
(***************************************************************************)
EXTENDS Integers, Sequences, FiniteSets, TLC

VARIABLES
    \* ---- RAGChain.process_document_images (src/rag_chain.py) ----
    pcLink,           \* position inside process_document_images
    documents,        \* the chunk list handed to process_document_images
    documents0,       \* history: the chunk list as it was on entry
    id_format,        \* which extractor produced the image ids of this call
    unique_list,      \* list(unique_images.values())
    next_image,       \* loop index of analyze_images_with_llm
    analyzed_images,  \* analyzed_list being built
    outcomes,         \* history: what happened to each image of unique_list
    llm_calls,        \* history: number of llm.ainvoke calls per image_id
    \* ---- DocumentProcessor._load_pdf_with_pdfplumber, one page ----
    pcPage,           \* position inside the loop body
    page_num,         \* enumerate(pdf.pages) index of the page, 0-based
    page,             \* what pdfplumber reports for the page
    page_doc,         \* the Document appended for the page
    \* ---- DocumentProcessor.load_document / process_documents ----
    pcDocs,           \* position: load_document, process_documents, done
    file,             \* the file handed to load_document
    chunk_size,       \* DocumentProcessor.chunk_size
    chunk_overlap,    \* DocumentProcessor.chunk_overlap
    loaded,           \* the Documents load_document returned
    chunks,           \* the chunks process_documents returned
    \* ---- _run_drive_folder_async (src/main.py) ----
    pcJob,            \* position inside the background task
    new_files,        \* the files the task was created with
    file_idx,         \* position of the for loop in new_files
    drive_jobs,       \* the job registry: job_id -> job record
    tenant_active_job,\* tenant_id -> job_id of the running job
    all_documents,    \* ids of the files whose documents were collected
    successful_file_ids,
    poll_response,    \* what the last GET /process/drive/status returned
    \* ---- DocumentProcessor._generate_section_titles ----
    pcTitles,         \* position: gather running, titles assigned
    num_chunks,       \* len(chunks)
    failing,          \* the chunks whose LLM request raises
    semaphore,        \* the value of asyncio.Semaphore(10)
    next_waiting,     \* first task that has not entered the semaphore yet
    in_flight,        \* tasks inside asyncio.to_thread(... parse ...)
    task_result,      \* what each finished task returned
    section_title,    \* metadata["section_title"] of each chunk
    \* ---- load_document at the file-level boundary, HWP/HWPX extraction ----
    pcFile,           \* position: load_document called, returned
    upload,           \* the file handed to load_document and what it holds
    load_result,      \* what load_document did: a Document list, None, raised
    extractor_calls,  \* history: the extract_hwp functions that were invoked
    extraction_error, \* the error of the (text, error) pair load_document got
    temp_files,       \* the temporary files that exist on disk
    extractions,      \* history: what each image extraction of the file returned
    next_drive_id,    \* the id Google Drive gives to the next created file
    \* ---- _get_text_blocks_outside_tables on one page ----
    pcWords,          \* position: called, returned
    all_words,        \* page.extract_words()
    table_bboxes,     \* the bbox of each table found on the page
    word_blocks,      \* the text_blocks returned
    \* ---- the folder branch of process_google_drive, several jobs ----
    processed_files,  \* the file ids in the processed_files table
    stored_by,        \* history: <<job, file>> whose chunks the store accepted
    \* ---- extract_text_from_hwp5, the section loop and the record loop ----
    pcHwp5,           \* position: probing a section, in the record loop, returned
    stream_names,     \* the N for which the file has a stream BodyText/Section{N}
    section_index,
    decompressed_data,\* the bytes of the section being parsed
    stream_offset     \* offset of _parse_text_from_stream

linkVars == <<pcLink, documents, documents0, id_format, unique_list,
              next_image, analyzed_images, outcomes, llm_calls>>
pageVars == <<pcPage, page_num, page, page_doc>>
docsVars == <<pcDocs, file, chunk_size, chunk_overlap, loaded, chunks>>

jobVars == <<pcJob, new_files, file_idx, drive_jobs, tenant_active_job,
             all_documents, successful_file_ids, poll_response>>

titleVars == <<pcTitles, num_chunks, failing, semaphore, next_waiting,
               in_flight, task_result, section_title>>

fileVars ==
    <<pcFile, upload, load_result, extractor_calls, extraction_error, temp_files,
      extractions, next_drive_id>>

wordVars == <<pcWords, all_words, table_bboxes, word_blocks>>

driveVars == <<processed_files, stored_by>>

hwp5Vars == <<pcHwp5, stream_names, section_index, decompressed_data,
              stream_offset>>

vars == <<linkVars, pageVars, docsVars, jobVars, titleVars, fileVars, wordVars,
          driveVars, hwp5Vars>>

\* a component no request is running in
IdleLink ==
    /\ pcLink = "idle"
    /\ documents = <<>>
    /\ documents0 = <<>>
    /\ id_format = "loader"
    /\ unique_list = <<>>
    /\ next_image = 1
    /\ analyzed_images = <<>>
    /\ outcomes = <<>>
    /\ llm_calls = <<>>

IdlePage ==
    /\ pcPage = "idle"
    /\ page_num = 0
    /\ page = <<>>
    /\ page_doc = <<>>

IdleDocs ==
    /\ pcDocs = "idle"
    /\ file = <<>>
    /\ chunk_size = 0
    /\ chunk_overlap = 0
    /\ loaded = <<>>
    /\ chunks = <<>>

IdleJob ==
    /\ pcJob = "idle"
    /\ new_files = <<>>
    /\ file_idx = 1
    /\ drive_jobs = <<>>
    /\ tenant_active_job = <<>>
    /\ all_documents = <<>>
    /\ successful_file_ids = <<>>
    /\ poll_response = [status |-> "not polled"]

IdleFile ==
    /\ pcFile = "idle"
    /\ upload = <<>>
    /\ load_result = <<>>
    /\ extractor_calls = {}
    /\ extraction_error = ""
    /\ temp_files = {}
    /\ extractions = <<>>
    /\ next_drive_id = 1

IdleWords ==
    /\ pcWords = "idle"
    /\ all_words = <<>>
    /\ table_bboxes = <<>>
    /\ word_blocks = <<>>

IdleDrive ==
    /\ processed_files = {}
    /\ stored_by = {}

IdleHwp5 ==
    /\ pcHwp5 = "idle"
    /\ stream_names = {}
    /\ section_index = 0
    /\ decompressed_data = <<>>
    /\ stream_offset = 0

IdleTitles ==
    /\ pcTitles = "idle"
    /\ num_chunks = 0
    /\ failing = {}
    /\ semaphore = 0
    /\ next_waiting = 1
    /\ in_flight = {}
    /\ task_result = <<>>
    /\ section_title = <<>>

(***************************************************************************)
(* Text items                                                              *)
(***************************************************************************)
Ch(c) == <<c, 0, 0>>
TokOpen == <<"__IMAGE_PLACEHOLDER_", 0, 0>>
TokKey(p, i) == <<"p_i", p, i>>
TokClose == <<"__", 0, 0>>
NL == Ch("\n")

\* f"__IMAGE_PLACEHOLDER_p{page_num_1based}_i{image_index}__"
PlaceholderToken(p, i) == <<TokOpen, TokKey(p, i), TokClose>>

\* placeholder_re matches at position j of text s
MatchAt(s, j) ==
    /\ j + 2 <= Len(s)
    /\ s[j] = TokOpen
    /\ s[j + 1][1] = "p_i"
    /\ s[j + 2] = TokClose

\* placeholder_re.findall(text): the (page, index) groups, left to right
RECURSIVE FindAll(_)
FindAll(s) ==
    IF s = <<>> THEN <<>>
    ELSE IF MatchAt(s, 1)
         THEN <<(<<s[2][2], s[2][3]>>)>> \o FindAll(SubSeq(s, 4, Len(s)))
         ELSE FindAll(Tail(s))

\* the text still holds the substring __IMAGE_PLACEHOLDER_
HasResidue(s) == \E j \in 1..Len(s) : s[j] = TokOpen

Last(s) == s[Len(s)]
SetMax(S) == CHOOSE x \in S : \A y \in S : y <= x

(***************************************************************************)
(* Images                                                                  *)
(*   fmt "loader": DocumentProcessor._extract_images_from_pdf,             *)
(*                 image_id = f"{file_id}_page{page}_img{index}"           *)
(*   fmt "drive" : GoogleDriveLoader._extract_images_from_pdf,             *)
(*                 image_id = the Drive id of the uploaded image           *)
(*   fmt "file"  : a single image file, image_id = file_id                 *)
(***************************************************************************)
Image(fmt, f, p, i) == [fmt |-> fmt, file |-> f, page |-> p, idx |-> i]

None == 0 - 1

\* RAGChain._image_index_from_id
ImageIndexFromId(img) == IF img.fmt = "loader" THEN img.idx ELSE None

\* RAGChain._get_image_page_number
GetImagePageNumber(img) == IF img.fmt = "file" THEN None ELSE img.page

\* response.content for a successfully described image
CaptionOf(img) == <<(<<"caption", img.file, 10 * img.page + img.idx>>)>>

(***************************************************************************)
(* Inputs of process_document_images                                       *)
(***************************************************************************)
MaxChunks == 2

PdfFiles == {1, 2}
ImageFiles == {3}

\* what the image extractor returned for each PDF file
FileImages(fmt, f) ==
    IF f = 1 THEN <<Image(fmt, 1, 1, 0), Image(fmt, 1, 2, 0)>>
    ELSE <<Image(fmt, 2, 1, 0)>>

AllImages ==
    {Image(fmt, f, p, 0) : fmt \in {"loader", "drive"}, f \in PdfFiles, p \in {1, 2}}
        \cup {Image("file", g, 0, 0) : g \in ImageFiles}

ChunkTexts ==
    { <<Ch("a")>>,
      <<Ch("a")>> \o PlaceholderToken(1, 0) \o <<Ch("b")>>,
      PlaceholderToken(1, 0) \o PlaceholderToken(2, 0),
      PlaceholderToken(2, 0) \o <<Ch("a")>>,
      PlaceholderToken(1, 1) }

\* a chunk of a PDF file; attach: the file's extracted images were put in
\* the metadata of its Documents (GoogleDriveLoader.download_and_process_file)
PdfChunk(fmt, f, text, attach) ==
    [kind |-> "pdf", file |-> f, text |-> text,
     keys |-> IF attach THEN {"extracted_images", "image_count"} ELSE {},
     extracted_images |-> IF attach THEN FileImages(fmt, f) ELSE <<>>,
     image_analysis |-> <<>>,
     image_count |-> IF attach THEN Len(FileImages(fmt, f)) ELSE 0]

\* the Document process_image_file builds for a single image file
ImageDoc(g) ==
    [kind |-> "image", file |-> g, text |-> <<>>,
     keys |-> {"image_url", "image_count"},
     extracted_images |-> <<>>, image_analysis |-> <<>>, image_count |-> 1]

ChunkOptions(fmt) ==
    {PdfChunk(fmt, f, t, a) : f \in PdfFiles, t \in ChunkTexts, a \in BOOLEAN}
        \cup {ImageDoc(g) : g \in ImageFiles}

SeqsUpTo(S, n) == UNION {[1..k -> S] : k \in 0..n}

(***************************************************************************)
(* RAGChain.process_document_images                                        *)
(***************************************************************************)
HasExtractedImages(doc) ==
    "extracted_images" \in doc.keys /\ doc.extracted_images # <<>>

IsSingleImageDoc(doc) ==
    "image_url" \in doc.keys /\ ~HasExtractedImages(doc)

InSeq(x, s) == \E n \in 1..Len(s) : s[n] = x

RECURSIVE AddNew(_, _)
AddNew(acc, imgs) ==
    IF imgs = <<>> THEN acc
    ELSE AddNew(IF InSeq(Head(imgs), acc) THEN acc ELSE Append(acc, Head(imgs)),
                Tail(imgs))

\* UniqueImages without the "iid not in unique_images" test
RECURSIVE UniqueImagesNoDedup(_)
UniqueImagesNoDedup(docs) ==
    IF docs = <<>> THEN <<>>
    ELSE LET doc == Last(docs)
         IN  UniqueImagesNoDedup(SubSeq(docs, 1, Len(docs) - 1))
                 \o (IF HasExtractedImages(doc) THEN doc.extracted_images ELSE <<>>)
                 \o (IF IsSingleImageDoc(doc)
                     THEN <<Image("file", doc.file, 0, 0)>> ELSE <<>>)

\* step 1: unique_images, keyed by image_id, in insertion order
RECURSIVE UniqueImages(_)
UniqueImages(docs) ==
    IF docs = <<>> THEN <<>>
    ELSE LET before == UniqueImages(SubSeq(docs, 1, Len(docs) - 1))
             doc == Last(docs)
             own == IF HasExtractedImages(doc) THEN doc.extracted_images ELSE <<>>
             single == IF IsSingleImageDoc(doc)
                       THEN <<Image("file", doc.file, 0, 0)>> ELSE <<>>
         IN  AddNew(AddNew(before, own), single)

\* analyze_images_with_llm, one iteration of its loop: what can happen
\*   not_invoked: no image_url (skipped), or the localhost download raised
\*   llm_raised : llm.ainvoke raised
\*   empty      : the response has no content
\*   ok         : the response holds a description
Outcomes == {"not_invoked", "llm_raised", "empty", "ok"}

Invoked(o) == IF o = "not_invoked" THEN 0 ELSE 1

AnalyzedAfter(analyzed, img, o) ==
    IF o = "ok" THEN Append(analyzed, [image |-> img, analysis |-> CaptionOf(img)])
    ELSE IF o = "empty" THEN Append(analyzed, [image |-> img, analysis |-> <<>>])
    ELSE analyzed

\* PcAfterImage without the try/except around one image
PcAfterImagePropagating(o, last) ==
    IF o = "llm_raised" THEN "raised" ELSE IF last THEN "link" ELSE "analyze"

\* the except clause of the loop: print and continue
PcAfterImage(o, last) == IF last THEN "link" ELSE "analyze"

\* step 3: placeholder_map[(page, index)], 0 when the key is absent; a later
\* image with the same key overwrites an earlier one
PlaceholderEntry(analyzed, p, i) ==
    LET S == {n \in 1..Len(analyzed) :
                /\ GetImagePageNumber(analyzed[n].image) = p
                /\ ImageIndexFromId(analyzed[n].image) = i
                /\ analyzed[n].analysis # <<>>}
    IN  IF S = {} THEN 0 ELSE SetMax(S)

ImgHeader(p, i) == <<"[img: page p, image n]", p, i + 1>>

\* make_replacer(placeholder_map)
Replacer(analyzed, p, i) ==
    LET n == PlaceholderEntry(analyzed, p, i)
    IN  IF n = 0 THEN <<>>
        ELSE <<ImgHeader(p, i), NL>> \o analyzed[n].analysis

\* placeholder_re.sub(replacer, text)
RECURSIVE PlaceholderSub(_, _)
PlaceholderSub(s, analyzed) ==
    IF s = <<>> THEN <<>>
    ELSE IF MatchAt(s, 1)
         THEN Replacer(analyzed, s[2][2], s[2][3])
                  \o PlaceholderSub(SubSeq(s, 4, Len(s)), analyzed)
         ELSE <<Head(s)>> \o PlaceholderSub(Tail(s), analyzed)

\* chunk_image_analyses of a PDF chunk: one entry per placeholder found
\* whose key is in placeholder_map
RECURSIVE ChunkImageAnalyses(_, _)
ChunkImageAnalyses(found, analyzed) ==
    IF found = <<>> THEN <<>>
    ELSE LET n == PlaceholderEntry(analyzed, Head(found)[1], Head(found)[2])
         IN  (IF n = 0 THEN <<>> ELSE <<analyzed[n]>>)
                 \o ChunkImageAnalyses(Tail(found), analyzed)

RECURSIVE SingleImageAnalyses(_, _)
SingleImageAnalyses(doc, analyzed) ==
    IF analyzed = <<>> THEN <<>>
    ELSE (IF Head(analyzed).analysis # <<>>
             /\ Head(analyzed).image = Image("file", doc.file, 0, 0)
          THEN <<Head(analyzed)>> ELSE <<>>)
             \o SingleImageAnalyses(doc, Tail(analyzed))

RECURSIVE ImageBlocks(_)
ImageBlocks(as) ==
    IF as = <<>> THEN <<>>
    ELSE <<NL, NL, Ch("[img]"), NL>> \o Head(as).analysis \o ImageBlocks(Tail(as))

NoImages(doc) ==
    [doc EXCEPT !.keys = @ \cup {"extracted_images", "image_count"},
                !.extracted_images = <<>>, !.image_count = 0]

WithImages(doc, as) ==
    [doc EXCEPT !.keys = @ \cup {"extracted_images", "image_count", "image_analysis"},
                !.image_analysis = as,
                !.extracted_images = [n \in 1..Len(as) |-> as[n].image],
                !.image_count = Len(as)]

\* step 4, one iteration: a single image Document
LinkSingleImageDoc(doc, analyzed) ==
    LET as == SingleImageAnalyses(doc, analyzed)
    IN  IF as # <<>>
        THEN [WithImages(doc, as) EXCEPT !.text = @ \o ImageBlocks(as)]
        ELSE NoImages(doc)

\* step 4, one iteration: a PDF chunk
LinkPdfChunk(doc, analyzed) ==
    LET found == FindAll(doc.text)
        as == ChunkImageAnalyses(found, analyzed)
    IN  IF found # <<>>
        THEN IF as # <<>>
             THEN [WithImages(doc, as) EXCEPT !.text = PlaceholderSub(@, analyzed)]
             ELSE [NoImages(doc) EXCEPT !.text = PlaceholderSub(@, analyzed)]
        ELSE NoImages(doc)

LinkChunk(doc, analyzed) ==
    IF IsSingleImageDoc(doc) THEN LinkSingleImageDoc(doc, analyzed)
    ELSE LinkPdfChunk(doc, analyzed)

InitLink ==
    /\ id_format \in {"loader", "drive"}
    /\ documents \in SeqsUpTo(ChunkOptions(id_format), MaxChunks)
    /\ documents0 = documents
    /\ pcLink = "start"
    /\ unique_list = <<>>
    /\ next_image = 1
    /\ analyzed_images = <<>>
    /\ outcomes = <<>>
    /\ llm_calls = [img \in AllImages |-> 0]
    /\ IdlePage
    /\ IdleDocs
    /\ IdleJob
    /\ IdleTitles
    /\ IdleFile
    /\ IdleWords
    /\ IdleDrive
    /\ IdleHwp5

\* lines 181-205: collect the unique images, return when there is none
CollectUniqueImages ==
    /\ pcLink = "start"
    /\ unique_list' = UniqueImages(documents)
    /\ pcLink' = IF unique_list' = <<>> THEN "done" ELSE "analyze"
    /\ UNCHANGED <<documents, documents0, id_format, next_image,
                   analyzed_images, outcomes, llm_calls>>

\* lines 416-497: one image of analyze_images_with_llm
AnalyzeImage ==
    /\ pcLink = "analyze"
    /\ \E o \in Outcomes :
        LET img == unique_list[next_image] IN
        /\ llm_calls' = [llm_calls EXCEPT ![img] = @ + Invoked(o)]
        /\ analyzed_images' = AnalyzedAfter(analyzed_images, img, o)
        /\ outcomes' = Append(outcomes, o)
        /\ pcLink' = PcAfterImage(o, next_image = Len(unique_list))
    /\ next_image' = next_image + 1
    /\ UNCHANGED <<documents, documents0, id_format, unique_list>>

\* lines 210-311: build the maps and link every chunk
LinkChunks ==
    /\ pcLink = "link"
    /\ documents' = [n \in 1..Len(documents) |->
                        LinkChunk(documents[n], analyzed_images)]
    /\ pcLink' = "done"
    /\ UNCHANGED <<documents0, id_format, unique_list, next_image,
                   analyzed_images, outcomes, llm_calls>>

NextLink ==
    \/ CollectUniqueImages /\ UNCHANGED <<pageVars, docsVars, jobVars, titleVars, fileVars, wordVars, driveVars, hwp5Vars>>
    \/ AnalyzeImage /\ UNCHANGED <<pageVars, docsVars, jobVars, titleVars, fileVars, wordVars, driveVars, hwp5Vars>>
    \/ LinkChunks /\ UNCHANGED <<pageVars, docsVars, jobVars, titleVars, fileVars, wordVars, driveVars, hwp5Vars>>

SpecLink == InitLink /\ [][NextLink]_vars

(***************************************************************************)
(* Claims about process_document_images                                    *)
(***************************************************************************)
PdfChunkIndices == {n \in 1..Len(documents) : documents[n].kind = "pdf"}

\* doc.metadata.get('extracted_images') or []
ExtractedImagesOf(doc) ==
    IF "extracted_images" \in doc.keys THEN doc.extracted_images ELSE <<>>

ImageCountOf(doc) == IF "image_count" \in doc.keys THEN doc.image_count ELSE 0

ImageAnalysisOf(doc) ==
    IF "image_analysis" \in doc.keys THEN doc.image_analysis ELSE <<>>

Range(s) == {s[n] : n \in 1..Len(s)}

\* the images of unique_list the collaborator described with a non-empty text
Captioned == {unique_list[k] : k \in {j \in 1..Len(outcomes) : outcomes[j] = "ok"}}

\* the images of unique_list whose captioning failed or gave nothing
NotCaptioned == {unique_list[k] : k \in {j \in 1..Len(outcomes) : outcomes[j] # "ok"}}

\* the captions available for the token p{p}_i{i}: the descriptions of the
\* captioned images whose image_id ends in _img{i} and whose page is p
CaptionsFor(p, i) ==
    {CaptionOf(img) : img \in {m \in Captioned :
        m.fmt = "loader" /\ m.page = p /\ m.idx = i}}

\* s1 is s0 with every token replaced by header, newline and a caption
\* available for its key, or by nothing when there is none, and every
\* other character kept
RECURSIVE Linked(_, _)
Linked(s0, s1) ==
    IF s0 = <<>> THEN s1 = <<>>
    ELSE IF MatchAt(s0, 1)
         THEN LET p == s0[2][2]
                  i == s0[2][3]
                  rest == SubSeq(s0, 4, Len(s0))
              IN  IF CaptionsFor(p, i) = {} THEN Linked(rest, s1)
                  ELSE /\ Len(s1) >= 3
                       /\ s1[1] = ImgHeader(p, i)
                       /\ s1[2] = NL
                       /\ <<s1[3]>> \in CaptionsFor(p, i)
                       /\ Linked(rest, SubSeq(s1, 4, Len(s1)))
         ELSE /\ s1 # <<>>
              /\ Head(s1) = Head(s0)
              /\ Linked(Tail(s0), Tail(s1))

\* C1: after process_document_images has returned, no chunk text of a PDF
\* chunk holds the substring __IMAGE_PLACEHOLDER_, whatever images were
\* extracted, attached or captioned.
C1_NoResidualPlaceholder ==
    pcLink = "done" =>
        \A n \in PdfChunkIndices : ~HasResidue(documents[n].text)

\* C2: after linking, the images a PDF chunk records (extracted_images,
\* image_analysis, image_count) are exactly the captioned images whose
\* placeholder token p{page}_i{index} occurred in the chunk's own text; a
\* chunk without token keeps its text and ends with no image and
\* image_count 0.
C2_RecordsOwnImages ==
    pcLink = "done" =>
        \A n \in PdfChunkIndices :
            LET found == Range(FindAll(documents0[n].text))
                own == {m \in Captioned : <<m.page, m.idx>> \in found}
                doc == documents[n]
            IN  /\ Range(ExtractedImagesOf(doc)) = own
                /\ {a.image : a \in Range(ImageAnalysisOf(doc))} = own
                /\ ImageCountOf(doc) = Cardinality(own)
                /\ found = {} =>
                     /\ doc.text = documents0[n].text
                     /\ ExtractedImagesOf(doc) = <<>>
                     /\ ImageCountOf(doc) = 0

\* C3: every placeholder token of a chunk is replaced by the header line and
\* the caption when a non-empty caption exists for the image keyed
\* (page, index), and by the empty string otherwise; all other characters of
\* the chunk text are unchanged.
C3_TokenReplaced ==
    pcLink = "done" =>
        \A n \in PdfChunkIndices : Linked(documents0[n].text, documents[n].text)

\* the image_ids present in the chunk set on entry
PresentImages ==
    UNION {Range(ExtractedImagesOf(documents0[n])) : n \in 1..Len(documents0)}
        \cup {Image("file", documents0[n].file, 0, 0) :
                n \in {j \in 1..Len(documents0) : documents0[j].kind = "image"}}

\* C4 as stated: within one call the collaborator is invoked exactly once
\* for each unique image_id present in the chunk set.
C4_ExactlyOncePerImage ==
    pcLink = "done" => \A img \in PresentImages : llm_calls[img] = 1

\* C4 as amended: the collaborator is invoked at most once per image_id;
\* when the call is over it has been invoked exactly once for every present
\* image that had an image_url (whose download, for a localhost URL,
\* succeeded), and never for any other image.
C4_AtMostOncePerImage ==
    /\ \A img \in AllImages : llm_calls[img] <= 1
    /\ pcLink = "done" =>
        \A img \in AllImages :
            llm_calls[img] = 1 <=>
                /\ img \in PresentImages
                /\ \E k \in 1..Len(unique_list) :
                     unique_list[k] = img /\ outcomes[k] # "not_invoked"

\* C4 witness: an image carried by two chunks has been captioned once.
C4_Witness ==
    /\ pcLink = "done"
    /\ \E img \in AllImages :
        /\ llm_calls[img] = 1
        /\ Cardinality({n \in 1..Len(documents0) :
                          img \in Range(ExtractedImagesOf(documents0[n]))}) >= 2

RECURSIVE JoinSeq(_, _)
\* sep.join(parts)
JoinSeq(parts, sep) ==
    IF parts = <<>> THEN <<>>
    ELSE IF Len(parts) = 1 THEN parts[1]
    ELSE parts[1] \o sep \o JoinSeq(Tail(parts), sep)

Str2(a, b) == <<Ch(a), Ch(b)>>
Str3(a, b, c) == <<Ch(a), Ch(b), Ch(c)>>

\* "| " + " | ".join(cells) + " |"
MarkdownRow(cells) == Str2("|", " ") \o JoinSeq(cells, Str3(" ", "|", " ")) \o Str2(" ", "|")

\* _table_to_markdown: header row, --- row, the remaining rows
TableToMarkdown(table) ==
    IF table = <<>> THEN <<>>
    ELSE JoinSeq(
            <<MarkdownRow(table[1]),
              MarkdownRow([c \in 1..Len(table[1]) |-> Str3("-", "-", "-")])>>
              \o [r \in 1..(Len(table) - 1) |-> MarkdownRow(table[r + 1])],
            <<NL>>)

TableElement(t) ==
    [type |-> "table", y |-> t.y, content |-> t.content,
     image_index |-> 0, page_num_1based |-> 0]
TextElement(b) ==
    [type |-> "text", y |-> b.y, content |-> b.content,
     image_index |-> 0, page_num_1based |-> 0]
ImagePlaceholderElement(top, img_index, n) ==
    [type |-> "image_placeholder", y |-> top, content |-> <<>>,
     image_index |-> img_index, page_num_1based |-> n + 1]

RECURSIVE TableElements(_)
\* lines 241-251: a table whose extraction is empty is left out
TableElements(tables) ==
    IF tables = <<>> THEN <<>>
    ELSE (IF Head(tables).content # <<>> THEN <<TableElement(Head(tables))>> ELSE <<>>)
            \o TableElements(Tail(tables))

RECURSIVE ImageElements(_, _, _)
\* lines 258-266: enumerate(page.images), an image without top is left out
ImageElements(images, img_index, n) ==
    IF img_index >= Len(images) THEN <<>>
    ELSE (IF images[img_index + 1] # None
          THEN <<ImagePlaceholderElement(images[img_index + 1], img_index, n)>>
          ELSE <<>>)
            \o ImageElements(images, img_index + 1, n)

\* lines 239-266: the elements list in the order it is built
DetectedElements(pg, n) ==
    TableElements(pg.tables)
        \o [k \in 1..Len(pg.text_blocks) |-> TextElement(pg.text_blocks[k])]
        \o ImageElements(pg.images, 0, n)

\* the list is left as detected
AppendElement(sorted, e) == Append(sorted, e)

\* list.sort is stable: e goes behind every element whose key is <= its own
InsertByY(sorted, e) ==
    LET k == Cardinality({j \in 1..Len(sorted) : sorted[j].y <= e.y})
    IN  SubSeq(sorted, 1, k) \o <<e>> \o SubSeq(sorted, k + 1, Len(sorted))

RECURSIVE SortByY(_)
\* elements.sort(key=lambda x: x["y"])
SortByY(elements) ==
    IF elements = <<>> THEN <<>>
    ELSE InsertByY(SortByY(SubSeq(elements, 1, Len(elements) - 1)), Last(elements))

\* lines 273-284: what one element appends to parts
PartsOfElement(elem) ==
    IF elem.type = "text"
    THEN (IF elem.content # <<>> THEN <<elem.content>> ELSE <<>>)
    ELSE IF elem.type = "table"
    THEN (IF TableToMarkdown(elem.content) # <<>>
          THEN <<TableToMarkdown(elem.content)>> ELSE <<>>)
    ELSE <<PlaceholderToken(elem.page_num_1based, elem.image_index)>>

RECURSIVE PartsOf(_)
PartsOf(elements) ==
    IF elements = <<>> THEN <<>>
    ELSE PartsOfElement(Head(elements)) \o PartsOf(Tail(elements))

\* lines 239-294: the Document of page n
LoadPdfPage(pg, n) ==
    [page_content |-> JoinSeq(PartsOf(SortByY(DetectedElements(pg, n))), <<NL, NL>>),
     has_page |-> TRUE,
     page |-> n]

(***************************************************************************)
(* Pages handed to the loader                                              *)
(***************************************************************************)
Tops == {50, 75, 100}
PageNums == {0, 1}
Grids == {<<>>, << <<(<<Ch("c")>>)>> >>}
TextContents == {<<>>, <<Ch("a")>>, <<Ch("a"), Ch(" "), Ch("b"), NL, Ch("c")>>}

TableOptions == SeqsUpTo([y : Tops, content : Grids], 1)
\* _get_text_blocks_outside_tables returns the blocks in increasing y
TextBlockOptions ==
    {bs \in SeqsUpTo([y : Tops, content : TextContents], 2) :
        \A k \in 1..(Len(bs) - 1) : bs[k].y < bs[k + 1].y}
ImageOptions == SeqsUpTo(Tops \cup {None}, 2)

PageLayouts ==
    [tables : TableOptions, text_blocks : TextBlockOptions, images : ImageOptions]

InitPage ==
    /\ pcPage = "page"
    /\ page_num \in PageNums
    /\ page \in PageLayouts
    /\ page_doc = <<>>
    /\ IdleLink
    /\ IdleDocs
    /\ IdleJob
    /\ IdleTitles
    /\ IdleFile
    /\ IdleWords
    /\ IdleDrive
    /\ IdleHwp5

\* lines 238-294: the loop body for one page
LoadPage ==
    /\ pcPage = "page"
    /\ page_doc' = LoadPdfPage(page, page_num)
    /\ pcPage' = "done"
    /\ UNCHANGED <<page_num, page, linkVars, docsVars, jobVars, titleVars, fileVars, wordVars, driveVars, hwp5Vars>>

NextPage == LoadPage

SpecPage == InitPage /\ [][NextPage]_vars

(***************************************************************************)
(* Claims about the page loader                                            *)
(***************************************************************************)
\* es[f[1]], es[f[2]], ...
Reordered(es, f) == [k \in 1..Len(es) |-> es[f[k]]]

NonDecreasingY(es) == \A k \in 1..(Len(es) - 1) : es[k].y <= es[k + 1].y

\* C6: the serialized page text lists the page's elements (tables, text
\* blocks, image placeholders) in non-decreasing order of their
\* top-coordinate, whatever order they were detected in.
C6_ElementsInTopOrder ==
    pcPage = "done" =>
        LET es == DetectedElements(page, page_num) IN
        \E f \in Permutations(1..Len(es)) :
            /\ NonDecreasingY(Reordered(es, f))
            /\ page_doc.page_content =
                    JoinSeq(PartsOf(Reordered(es, f)), <<NL, NL>>)

\* the spec's example: table at 100, text block at 50, image anchor at 75
\* come out as text, placeholder, table
C6_Witness ==
    /\ pcPage = "done"
    /\ page_num = 0
    /\ page = [tables |-> <<[y |-> 100, content |-> << <<(<<Ch("c")>>)>> >>]>>,
               text_blocks |-> <<[y |-> 50, content |-> <<Ch("a")>>]>>,
               images |-> <<75>>]
    /\ page_doc.page_content =
            <<Ch("a"), NL, NL>> \o PlaceholderToken(1, 0) \o <<NL, NL>>
                \o TableToMarkdown(<< <<(<<Ch("c")>>)>> >>)

(***************************************************************************)
(* The text splitter DocumentProcessor.__init__ builds                     *)
(* (src/document_loader.py:98-104): RecursiveCharacterTextSplitter with    *)
(* separators ["\n\n", "\n", ".", "!", "?", " ", ""], length_function len, *)
(* literal separators, and the library defaults keep_separator=True,       *)
(* strip_whitespace=True.                                                  *)
(***************************************************************************)
Separators ==
    << <<NL, NL>>, <<NL>>, <<Ch(".")>>, <<Ch("!")>>, <<Ch("?")>>, <<Ch(" ")>>, <<>> >>

KeepSeparatorOff == FALSE
KeepSeparator == TRUE
StripWhitespace == TRUE

IsWhitespace(c) == c \in {Ch(" "), NL, Ch("\t")}

RECURSIVE LStrip(_)
LStrip(s) == IF s # <<>> /\ IsWhitespace(Head(s)) THEN LStrip(Tail(s)) ELSE s

RECURSIVE RStrip(_)
RStrip(s) ==
    IF s # <<>> /\ IsWhitespace(Last(s)) THEN RStrip(SubSeq(s, 1, Len(s) - 1)) ELSE s

\* str.strip()
Strip(s) == RStrip(LStrip(s))

SetMin(S) == CHOOSE x \in S : \A y \in S : x <= y

\* the literal separator sep occurs in s at position j
FoundAt(sep, s, j) ==
    /\ j + Len(sep) - 1 <= Len(s)
    /\ SubSeq(s, j, j + Len(sep) - 1) = sep

\* re.search(re.escape(sep), s)
Search(sep, s) == \E j \in 1..Len(s) : FoundAt(sep, s, j)

RECURSIVE ReSplit(_, _)
\* the pieces between the successive non-overlapping occurrences of sep
ReSplit(s, sep) ==
    IF ~Search(sep, s) THEN <<s>>
    ELSE LET j == SetMin({k \in 1..Len(s) : FoundAt(sep, s, k)})
         IN  <<SubSeq(s, 1, j - 1)>> \o ReSplit(SubSeq(s, j + Len(sep), Len(s)), sep)

RECURSIVE NonEmpty(_)
\* [s for s in splits if s != ""]
NonEmpty(splits) ==
    IF splits = <<>> THEN <<>>
    ELSE (IF Head(splits) # <<>> THEN <<Head(splits)>> ELSE <<>>)
            \o NonEmpty(Tail(splits))

\* _split_text_with_regex: with keep_separator the separator stays at the
\* start of the piece that follows it
SplitTextWithRegex(text, separator, keep_separator) ==
    IF separator # <<>>
    THEN LET pieces == ReSplit(text, separator) IN
         IF keep_separator
         THEN NonEmpty(<<pieces[1]>> \o
                [k \in 1..(Len(pieces) - 1) |-> separator \o pieces[k + 1]])
         ELSE NonEmpty(pieces)
    ELSE [k \in 1..Len(text) |-> <<text[k]>>]

\* _join_docs: None (here <<>>) when nothing is left after stripping
JoinDocs(docs, separator) ==
    LET joined == JoinSeq(docs, separator)
        text == IF StripWhitespace THEN Strip(joined) ELSE joined
    IN  IF text = <<>> THEN <<>> ELSE <<text>>

RECURSIVE PopFront(_, _, _, _, _, _)
\* the while loop of _merge_splits: drop leading splits until the overlap
\* and the next split fit; the result is <<current_doc, total>>
PopFront(current_doc, total, len, seplen, cs, co) ==
    IF \/ total > co
       \/ /\ total + len + (IF Len(current_doc) > 0 THEN seplen ELSE 0) > cs
          /\ total > 0
    THEN PopFront(Tail(current_doc),
                  total - (Len(current_doc[1])
                            + (IF Len(current_doc) > 1 THEN seplen ELSE 0)),
                  len, seplen, cs, co)
    ELSE <<current_doc, total>>

RECURSIVE MergeLoop(_, _, _, _, _, _, _)
MergeLoop(splits, docs, current_doc, total, separator, cs, co) ==
    IF splits = <<>> THEN docs \o JoinDocs(current_doc, separator)
    ELSE LET d == Head(splits)
             len == Len(d)
             seplen == Len(separator)
             flush == /\ total + len + (IF Len(current_doc) > 0 THEN seplen ELSE 0) > cs
                      /\ Len(current_doc) > 0
             docs1 == IF flush THEN docs \o JoinDocs(current_doc, separator) ELSE docs
             kept == IF flush THEN PopFront(current_doc, total, len, seplen, cs, co)
                     ELSE <<current_doc, total>>
             current1 == Append(kept[1], d)
             total1 == kept[2] + len + (IF Len(current1) > 1 THEN seplen ELSE 0)
         IN  MergeLoop(Tail(splits), docs1, current1, total1, separator, cs, co)

\* _merge_splits
MergeSplits(splits, separator, cs, co) ==
    MergeLoop(splits, <<>>, <<>>, 0, separator, cs, co)

RECURSIVE SplitText(_, _, _, _)
RECURSIVE SplitRest(_, _, _, _, _, _)

\* the loop over splits of _split_text: short pieces are merged, a piece of
\* chunk_size or more is split again with the remaining separators
SplitRest(splits, good_splits, new_separators, separator, cs, co) ==
    LET merged == IF good_splits # <<>>
                  THEN MergeSplits(good_splits, separator, cs, co) ELSE <<>>
    IN  IF splits = <<>> THEN merged
        ELSE LET s == Head(splits) IN
             IF Len(s) < cs
             THEN SplitRest(Tail(splits), Append(good_splits, s),
                            new_separators, separator, cs, co)
             ELSE merged
                    \o (IF new_separators = <<>> THEN <<s>>
                        ELSE SplitText(s, new_separators, cs, co))
                    \o SplitRest(Tail(splits), <<>>, new_separators, separator, cs, co)

\* RecursiveCharacterTextSplitter._split_text
SplitText(text, separators, cs, co) ==
    LET found == {k \in 1..Len(separators) :
                    separators[k] = <<>> \/ Search(separators[k], text)}
        i == IF found = {} THEN Len(separators) ELSE SetMin(found)
        separator == separators[i]
        new_separators == IF found = {} \/ separator = <<>> THEN <<>>
                          ELSE SubSeq(separators, i + 1, Len(separators))
    IN  SplitRest(SplitTextWithRegex(text, separator, KeepSeparator), <<>>,
                  new_separators,
                  IF KeepSeparator THEN <<>> ELSE separator, cs, co)

(***************************************************************************)
(* DocumentProcessor.load_document and process_documents                   *)
(***************************************************************************)
\* Document(page_content=content) of a .txt file: no page in the metadata
TextDocument(content) == [page_content |-> content, has_page |-> FALSE, page |-> None]

\* load_document: one Document for a .txt file, one per page for a .pdf
LoadDocument(f) ==
    IF f.kind = "txt" THEN <<TextDocument(f.content)>>
    ELSE [n \in 1..Len(f.pages) |-> LoadPdfPage(f.pages[n], n - 1)]

\* create_documents: every chunk of documents[d] gets a copy of its metadata
\* (src is the position of the source Document, kept for the claims)
ChunksOfDocument(docs, d, cs, co) ==
    LET texts == SplitText(docs[d].page_content, Separators, cs, co)
    IN  [k \in 1..Len(texts) |->
            [page_content |-> texts[k], has_page |-> docs[d].has_page,
             page |-> docs[d].page, src |-> d]]

RECURSIVE SplitDocuments(_, _, _, _)
\* text_splitter.split_documents(documents), from Document d on
SplitDocuments(docs, d, cs, co) ==
    IF d > Len(docs) THEN <<>>
    ELSE ChunksOfDocument(docs, d, cs, co) \o SplitDocuments(docs, d + 1, cs, co)

\* the index of the i-th chunk (i counts from 1) numbered from one
ChunkIndexFromOne(i) == i

\* enumerate(chunks): the i-th chunk (i counts from 1) gets index i - 1
ChunkIndex(i) == i - 1

\* the page copied as it is
PageNumberUnshifted(pg) == pg

\* int(chunk.metadata["page"]) + 1
PageNumber(pg) == pg + 1

\* lines 397-410: the metadata update of the i-th chunk
WithChunkMetadata(chunk, i, total) ==
    [page_content |-> chunk.page_content,
     has_page |-> chunk.has_page,
     page |-> chunk.page,
     src |-> chunk.src,
     chunk_index |-> ChunkIndex(i),
     total_chunks |-> total,
     content_length |-> Len(chunk.page_content),
     has_page_number |-> chunk.has_page /\ chunk.page # None,
     page_number |-> IF chunk.has_page /\ chunk.page # None
                     THEN PageNumber(chunk.page) ELSE None]

\* process_documents
ProcessedChunks(docs, cs, co) ==
    LET split == SplitDocuments(docs, 1, cs, co)
    IN  [i \in 1..Len(split) |-> WithChunkMetadata(split[i], i, Len(split))]

(***************************************************************************)
(* Files handed to load_document                                           *)
(***************************************************************************)
MaxLen == 4
MaxPages == 2
MaxChunkSize == 5

Alphabet == {Ch("a"), Ch(" "), NL, Ch(".")}

Layout(tables, text_blocks, images) ==
    [tables |-> tables, text_blocks |-> text_blocks, images |-> images]

DocLayouts ==
    { Layout(<<>>, <<>>, <<>>),
      Layout(<<>>, <<[y |-> 50, content |-> <<Ch("a")>>]>>, <<>>),
      Layout(<<>>, <<[y |-> 50, content |-> <<Ch("a"), Ch(" "), Ch("b")>>]>>, <<75>>),
      Layout(<<>>, <<[y |-> 75, content |-> <<Ch("a")>>]>>, <<50, 100>>),
      Layout(<<[y |-> 100, content |-> << <<(<<Ch("c")>>)>> >>]>>, <<>>, <<50>>) }

Files ==
    [kind : {"txt"}, content : SeqsUpTo(Alphabet, MaxLen), pages : {<<>>}]
        \cup [kind : {"pdf"}, content : {<<>>},
              pages : SeqsUpTo(DocLayouts, MaxPages) \ {<<>>}]

InitDocs ==
    /\ pcDocs = "load"
    /\ file \in Files
    /\ chunk_size \in 1..MaxChunkSize
    /\ chunk_overlap \in 0..chunk_size
    /\ loaded = <<>>
    /\ chunks = <<>>
    /\ IdleLink
    /\ IdlePage
    /\ IdleJob
    /\ IdleTitles
    /\ IdleFile
    /\ IdleWords
    /\ IdleDrive
    /\ IdleHwp5

\* load_document (lines 297-379)
LoadDocumentStep ==
    /\ pcDocs = "load"
    /\ loaded' = LoadDocument(file)
    /\ pcDocs' = "process"
    /\ UNCHANGED <<file, chunk_size, chunk_overlap, chunks, linkVars, pageVars, jobVars, titleVars, fileVars, wordVars, driveVars, hwp5Vars>>

\* process_documents (lines 384-419)
ProcessDocuments ==
    /\ pcDocs = "process"
    /\ chunks' = ProcessedChunks(loaded, chunk_size, chunk_overlap)
    /\ pcDocs' = "done"
    /\ UNCHANGED <<file, chunk_size, chunk_overlap, loaded, linkVars, pageVars, jobVars, titleVars, fileVars, wordVars, driveVars, hwp5Vars>>

NextDocs == LoadDocumentStep \/ ProcessDocuments

SpecDocs == InitDocs /\ [][NextDocs]_vars

(***************************************************************************)
(* Claims about chunking                                                   *)
(***************************************************************************)
RECURSIVE ChunksFrom(_, _)
\* the chunks derived from Document d, in output order
ChunksFrom(cs, d) ==
    IF cs = <<>> THEN <<>>
    ELSE (IF Head(cs).src = d THEN <<Head(cs)>> ELSE <<>>) \o ChunksFrom(Tail(cs), d)

RECURSIVE SumLen(_)
SumLen(cs) == IF cs = <<>> THEN 0 ELSE Len(Head(cs).page_content) + SumLen(Tail(cs))

RECURSIVE CountNonWhitespace(_)
CountNonWhitespace(s) ==
    IF s = <<>> THEN 0
    ELSE (IF IsWhitespace(Head(s)) THEN 0 ELSE 1) + CountNonWhitespace(Tail(s))

RECURSIVE SumNonWhitespace(_)
SumNonWhitespace(cs) ==
    IF cs = <<>> THEN 0
    ELSE CountNonWhitespace(Head(cs).page_content) + SumNonWhitespace(Tail(cs))

IsSubstring(t, s) ==
    \E j \in 1..(Len(s) + 1) : j + Len(t) - 1 <= Len(s) /\ SubSeq(s, j, j + Len(t) - 1) = t

\* C7 (as stated): for every Document handed to process_documents the
\* chunks derived from it carry chunk_index 0..N-1 in output order and
\* total_chunks == N, N being the number of chunks of that Document.
C7_IndicesPerDocument ==
    pcDocs = "done" =>
        \A d \in 1..Len(loaded) :
            LET own == ChunksFrom(chunks, d) IN
            \A k \in 1..Len(own) :
                own[k].chunk_index = k - 1 /\ own[k].total_chunks = Len(own)

\* C7 (amended): chunk_index numbers all chunks of one process_documents
\* call 0..N-1 in output order and total_chunks == N on every one of them,
\* N being the number of chunks of the call; the chunks of one Document
\* are adjacent, so within a Document chunk_index increases by one.
C7_IndicesPerCall ==
    pcDocs = "done" =>
        /\ \A i \in 1..Len(chunks) :
              chunks[i].chunk_index = i - 1 /\ chunks[i].total_chunks = Len(chunks)
        /\ \A i \in 1..(Len(chunks) - 1) : chunks[i].src <= chunks[i + 1].src

\* a two-page PDF both pages of which gave chunks
C7_Witness ==
    /\ pcDocs = "done"
    /\ Len(loaded) = 2
    /\ ChunksFrom(chunks, 1) # <<>>
    /\ Len(ChunksFrom(chunks, 2)) >= 2

\* C8 (as stated): for every Document the chunks produced from it satisfy
\* sum(len(chunk.text)) >= len(document.text), whitespace at chunk
\* boundaries included.
C8_NoCharacterLost ==
    pcDocs = "done" =>
        \A d \in 1..Len(loaded) :
            SumLen(ChunksFrom(chunks, d)) >= Len(loaded[d].page_content)

\* C8 (amended): every chunk is a contiguous piece of its Document's text
\* and the chunks of a Document hold together at least as many
\* non-whitespace characters as the Document: splitting loses nothing but
\* whitespace, which is stripped from the ends of every chunk.
C8_OnlyWhitespaceLost ==
    pcDocs = "done" =>
        \A d \in 1..Len(loaded) :
            LET own == ChunksFrom(chunks, d) IN
            /\ \A k \in 1..Len(own) :
                  IsSubstring(own[k].page_content, loaded[d].page_content)
            /\ SumNonWhitespace(own) >= CountNonWhitespace(loaded[d].page_content)
            /\ SumLen(own) >= CountNonWhitespace(loaded[d].page_content)

\* a text split into several chunks that are together shorter than the text
C8_Witness ==
    /\ pcDocs = "done"
    /\ file.kind = "txt"
    /\ Len(chunks) >= 2
    /\ SumLen(chunks) < Len(loaded[1].page_content)
    /\ CountNonWhitespace(loaded[1].page_content) >= 2

\* C9: every chunk derived from a Document with 0-based page p carries
\* page_number p + 1, and every placeholder token in the chunk's text
\* names that page_number.
C9_PageNumberMatchesTokens ==
    pcDocs = "done" =>
        \A i \in 1..Len(chunks) :
            chunks[i].has_page =>
                /\ chunks[i].has_page_number
                /\ chunks[i].page_number = chunks[i].page + 1
                /\ chunks[i].page = chunks[i].src - 1
                /\ \A t \in Range(FindAll(chunks[i].page_content)) :
                      t[1] = chunks[i].page_number

\* a chunk of the second page that holds a whole placeholder token
C9_Witness ==
    /\ pcDocs = "done"
    /\ \E i \in 1..Len(chunks) :
          /\ chunks[i].has_page
          /\ chunks[i].page = 1
          /\ FindAll(chunks[i].page_content) # <<>>

(***************************************************************************)
(* _run_drive_folder_async (src/main.py): the Drive folder indexing job    *)
(***************************************************************************)
MaxFiles == 3

JobId == "job"
TenantId == "tenant"

\* a Drive file entry of new_files
DriveFile(id, is_image) == [id |-> id, is_image |-> is_image]

\* new_files: one or more files with distinct ids
NewFileLists ==
    UNION {[1..n -> BOOLEAN] : n \in 1..MaxFiles}

\* lines 522-531
NewJob(files) ==
    [tenant_id |-> TenantId, status |-> "running", total |-> Len(files),
     processed |-> 0, failed |-> 0, results |-> <<>>, error |-> "None"]

\* what can happen to one file: documents came back, nothing came back
\* (None or an empty list), or the download or the extraction raised
FileOutcomes == {"documents", "empty", "raised"}

\* lines 578-583
JobAfterSuccess(job, f) ==
    [job EXCEPT !.results = Append(@, [file_id |-> f.id, success |-> TRUE,
                                        error |-> "None"]),
                !.processed = @ + 1]

\* lines 585-591
JobAfterEmpty(job, f) ==
    [job EXCEPT !.results = Append(@, [file_id |-> f.id, success |-> FALSE,
                                        error |-> "No content extracted"]),
                !.failed = @ + 1]

\* the failure is recorded but not counted
JobAfterExceptionUncounted(job, f) ==
    [job EXCEPT !.results = Append(@, [file_id |-> f.id, success |-> FALSE,
                                        error |-> "str(e)"])]

\* the failure of one file ends the job
JobAfterExceptionFailing(job, f) ==
    [job EXCEPT !.results = Append(@, [file_id |-> f.id, success |-> FALSE,
                                        error |-> "str(e)"]),
                !.failed = @ + 1,
                !.status = "failed"]

\* lines 592-599
JobAfterException(job, f) ==
    [job EXCEPT !.results = Append(@, [file_id |-> f.id, success |-> FALSE,
                                        error |-> "str(e)"]),
                !.failed = @ + 1]

\* lines 542-600: the loop body for file f
JobAfterFile(job, f, o) ==
    IF o = "documents" THEN JobAfterSuccess(job, f)
    ELSE IF o = "empty" THEN JobAfterEmpty(job, f)
    ELSE JobAfterException(job, f)

\* lines 612-614
JobFailed(job) == [job EXCEPT !.status = "failed", !.error = "str(e)"]

\* line 611
JobCompleted(job) == [job EXCEPT !.status = "completed"]

InitJob ==
    /\ pcJob = "created"
    /\ \E flags \in NewFileLists :
          new_files = [k \in 1..Len(flags) |-> DriveFile(k, flags[k])]
    /\ file_idx = 1
    /\ drive_jobs = <<>>
    /\ tenant_active_job = <<>>
    /\ all_documents = <<>>
    /\ successful_file_ids = <<>>
    /\ poll_response = [status |-> "not polled"]
    /\ IdleLink
    /\ IdlePage
    /\ IdleDocs
    /\ IdleTitles
    /\ IdleFile
    /\ IdleWords
    /\ IdleDrive
    /\ IdleHwp5

\* lines 522-532: the task starts and registers the job
RegisterJob ==
    /\ pcJob = "created"
    /\ drive_jobs' = (JobId :> NewJob(new_files)) @@ drive_jobs
    /\ tenant_active_job' = (TenantId :> JobId) @@ tenant_active_job
    /\ pcJob' = "authenticate"
    /\ UNCHANGED <<new_files, file_idx, all_documents, successful_file_ids>>

\* lines 535-540; when authenticate raises, lines 612-617
Authenticate ==
    /\ pcJob = "authenticate"
    /\ \E ok \in BOOLEAN :
          IF ok
          THEN /\ pcJob' = "files"
               /\ UNCHANGED <<drive_jobs, tenant_active_job>>
          ELSE /\ drive_jobs' = [drive_jobs EXCEPT ![JobId] = JobFailed(@)]
               /\ tenant_active_job' = <<>>
               /\ pcJob' = "done"
    /\ UNCHANGED <<new_files, file_idx, all_documents, successful_file_ids>>

\* lines 542-600: one iteration of the loop over new_files
ProcessFile ==
    /\ pcJob = "files"
    /\ \E o \in FileOutcomes :
          LET f == new_files[file_idx] IN
          /\ drive_jobs' = [drive_jobs EXCEPT ![JobId] = JobAfterFile(@, f, o)]
          /\ all_documents' =
                IF o = "documents" THEN Append(all_documents, f.id) ELSE all_documents
          /\ successful_file_ids' =
                IF o = "documents" THEN Append(successful_file_ids, f.id)
                ELSE successful_file_ids
    /\ file_idx' = file_idx + 1
    /\ pcJob' = IF file_idx = Len(new_files) THEN "store" ELSE "files"
    /\ UNCHANGED <<new_files, tenant_active_job>>

\* lines 602-617: store what was collected, then completed; failed when
\* process_and_store_documents or save_processed_files raises
StoreAndFinish ==
    /\ pcJob = "store"
    /\ \E raised \in BOOLEAN :
          /\ raised => all_documents # <<>>
          /\ drive_jobs' = [drive_jobs EXCEPT ![JobId] =
                              IF raised THEN JobFailed(@) ELSE JobCompleted(@)]
    /\ tenant_active_job' = <<>>
    /\ pcJob' = "done"
    /\ UNCHANGED <<new_files, file_idx, all_documents, successful_file_ids>>

\* the body of a status response for job jid
JobResponse(jobs, jid) ==
    [job_id |-> jid, status |-> jobs[jid].status, total |-> jobs[jid].total,
     processed |-> jobs[jid].processed, failed |-> jobs[jid].failed,
     results |-> jobs[jid].results, error |-> jobs[jid].error]

\* the first of the keys S of drive_jobs in the order of insertion: a job
\* is inserted when its task starts, and where several jobs exist their ids
\* are numbered in that order
FirstKey(S) == CHOOSE jid \in S : \A other \in S : jid = other \/ jid < other

\* get_drive_indexing_status: the tenant's active job, else the first
\* finished job of the tenant in drive_jobs, else idle
StatusResponse(jobs, active, tenant) ==
    IF tenant \in DOMAIN active /\ active[tenant] \in DOMAIN jobs
    THEN JobResponse(jobs, active[tenant])
    ELSE LET finished == {jid \in DOMAIN jobs :
                            /\ jobs[jid].tenant_id = tenant
                            /\ jobs[jid].status \in {"completed", "failed"}}
         IN  IF finished # {} THEN JobResponse(jobs, FirstKey(finished))
             ELSE [status |-> "idle"]

\* GET /process/drive/status, at any moment; it only reads the registries
PollStatus ==
    /\ poll_response' = StatusResponse(drive_jobs, tenant_active_job, TenantId)
    /\ UNCHANGED <<pcJob, new_files, file_idx, drive_jobs, tenant_active_job,
                   all_documents, successful_file_ids>>

\* the steps of the background task
JobStep ==
    /\ RegisterJob \/ Authenticate \/ ProcessFile \/ StoreAndFinish
    /\ UNCHANGED <<poll_response, linkVars, pageVars, docsVars, titleVars, fileVars, wordVars, driveVars, hwp5Vars>>

NextJob ==
    \/ RegisterJob /\ UNCHANGED <<poll_response, linkVars, pageVars, docsVars, titleVars, fileVars, wordVars, driveVars, hwp5Vars>>
    \/ Authenticate /\ UNCHANGED <<poll_response, linkVars, pageVars, docsVars, titleVars, fileVars, wordVars, driveVars, hwp5Vars>>
    \/ ProcessFile /\ UNCHANGED <<poll_response, linkVars, pageVars, docsVars, titleVars, fileVars, wordVars, driveVars, hwp5Vars>>
    \/ StoreAndFinish /\ UNCHANGED <<poll_response, linkVars, pageVars, docsVars, titleVars, fileVars, wordVars, driveVars, hwp5Vars>>
    \/ PollStatus /\ UNCHANGED <<linkVars, pageVars, docsVars, titleVars, fileVars, wordVars, driveVars, hwp5Vars>>

SpecJob == InitJob /\ [][NextJob]_vars

\* the event loop runs the created task, and every call the task awaits
\* returns or raises
SpecJobFair == SpecJob /\ WF_vars(JobStep)

(***************************************************************************)
(* Claims about the Drive folder job                                       *)
(***************************************************************************)
\* C10: in the Drive folder job an exception or an empty extraction for
\* one file does not stop the batch: the results list holds exactly one
\* entry (success true or false) for each file attempted so far, in the
\* order of new_files, and for every file once the loop is over; in every
\* state processed + failed == len(results) <= total, and
\* processed + failed == total when status is completed.
C10_EveryFileRecorded ==
    JobId \in DOMAIN drive_jobs =>
        LET job == drive_jobs[JobId] IN
        /\ job.processed + job.failed = Len(job.results)
        /\ Len(job.results) <= job.total
        /\ job.total = Len(new_files)
        /\ \A k \in 1..Len(job.results) :
              /\ job.results[k].file_id = new_files[k].id
              /\ job.results[k].success \in BOOLEAN
        /\ job.processed = Cardinality({k \in 1..Len(job.results) : job.results[k].success})
        /\ pcJob = "files" => Len(job.results) = file_idx - 1
        /\ pcJob = "store" => Len(job.results) = job.total
        /\ job.status = "completed" => job.processed + job.failed = job.total

\* a completed job in which one file raised, one gave nothing and a later
\* one was indexed
C10_Witness ==
    /\ JobId \in DOMAIN drive_jobs
    /\ drive_jobs[JobId].status = "completed"
    /\ Len(drive_jobs[JobId].results) = 3
    /\ drive_jobs[JobId].results[1].error = "str(e)"
    /\ drive_jobs[JobId].results[2].error = "No content extracted"
    /\ drive_jobs[JobId].results[3].success

Terminal == {"completed", "failed"}

IsPrefix(s1, s2) == Len(s1) <= Len(s2) /\ SubSeq(s2, 1, Len(s1)) = s1

\* one step of the job record, seen from the registry
StatusTransition ==
    /\ (JobId \notin DOMAIN drive_jobs /\ JobId \in DOMAIN drive_jobs') =>
            /\ drive_jobs'[JobId].status = "running"
            /\ drive_jobs'[JobId].results = <<>>
    /\ JobId \in DOMAIN drive_jobs =>
            /\ JobId \in DOMAIN drive_jobs'
            /\ drive_jobs[JobId].status \in Terminal =>
                    drive_jobs'[JobId] = drive_jobs[JobId]
            /\ drive_jobs'[JobId].status \in {"running"} \cup Terminal
            /\ IsPrefix(drive_jobs[JobId].results, drive_jobs'[JobId].results)
            /\ drive_jobs'[JobId].status = "completed" =>
                    /\ Len(drive_jobs'[JobId].results) = Len(new_files)
                    /\ \A k \in 1..Len(new_files) :
                          drive_jobs'[JobId].results[k].file_id = new_files[k].id

\* C11: a batch job's status starts as running and changes exactly once,
\* to completed or failed, and the terminal status is never left; nothing
\* aborts a running job: its results are never cut back, it attempts and
\* records every remaining file before it is completed, and it eventually
\* reaches a terminal status.
C11_StatusLifecycle ==
    /\ [][StatusTransition]_vars
    /\ (pcJob = "created") ~>
          (JobId \in DOMAIN drive_jobs /\ drive_jobs[JobId].status \in Terminal)
    /\ [](pcJob = "done" =>
            (JobId \in DOMAIN drive_jobs /\ drive_jobs[JobId].status \in Terminal))

\* a poll that shows the job completed after a file of it had raised
C11_Witness ==
    /\ pcJob = "done"
    /\ poll_response.status = "completed"
    /\ poll_response.total = 2
    /\ poll_response.failed = 1
    /\ poll_response.results[1].error = "str(e)"

(***************************************************************************)
(* DocumentProcessor._generate_section_titles and the assignment of        *)
(* section_title in process_documents (src/document_loader.py)             *)
(***************************************************************************)
SemaphoreLimit == 10
MaxTitleChunks == 11

\* a title is a string, here a sequence; the empty string is <<>>
EmptyTitle == <<>>
Pending == <<"pending">>
Absent == <<"absent">>

\* parsed.title.strip() for the snippet of chunk i
TitleOf(i) == <<"title", i>>

\* what _generate_section_title_single returns for chunk i
TaskResult(i, fails) == IF i \in fails THEN EmptyTitle ELSE TitleOf(i)

\* the semaphore lets everybody in
CanAcquireAlways(value) == TRUE

\* asyncio.Semaphore.acquire goes through while the value is positive
CanAcquire(value) == value > 0

RECURSIVE NonEmptyTitles(_, _)
\* the titles with the empty ones left out
NonEmptyTitles(results, i) ==
    IF i > Len(results) THEN <<>>
    ELSE (IF results[i] # EmptyTitle THEN <<results[i]>> ELSE <<>>)
            \o NonEmptyTitles(results, i + 1)

GatherCompacted(results) == NonEmptyTitles(results, 1)

\* list(await asyncio.gather(*tasks)): the results in the order of tasks
Gather(results) == [i \in 1..Len(results) |-> results[i]]

\* lines 415-417: zip(chunks, section_titles); an empty title sets nothing
AssignedTitles(n, titles) ==
    [i \in 1..n |-> IF i <= Len(titles) /\ titles[i] # EmptyTitle THEN titles[i]
                    ELSE Absent]

InitTitles ==
    /\ pcTitles = "gather"
    /\ num_chunks \in {0, 1, 2, MaxTitleChunks}
    /\ failing \in {{}, {1}, {num_chunks}, 1..num_chunks}
    /\ semaphore = SemaphoreLimit
    /\ next_waiting = 1
    /\ in_flight = {}
    /\ task_result = [i \in 1..num_chunks |-> Pending]
    /\ section_title = <<>>
    /\ IdleLink
    /\ IdlePage
    /\ IdleDocs
    /\ IdleJob
    /\ IdleFile
    /\ IdleWords
    /\ IdleDrive
    /\ IdleHwp5

\* line 121: the next task enters `async with semaphore` and sends its request
AcquireSemaphore ==
    /\ pcTitles = "gather"
    /\ next_waiting <= num_chunks
    /\ CanAcquire(semaphore)
    /\ semaphore' = semaphore - 1
    /\ in_flight' = in_flight \cup {next_waiting}
    /\ next_waiting' = next_waiting + 1
    /\ UNCHANGED <<pcTitles, num_chunks, failing, task_result, section_title>>

\* lines 122-142: a request returns or raises; the task leaves the semaphore
CompleteRequest ==
    /\ pcTitles = "gather"
    /\ \E i \in in_flight :
          /\ task_result' = [task_result EXCEPT ![i] = TaskResult(i, failing)]
          /\ in_flight' = in_flight \ {i}
    /\ semaphore' = semaphore + 1
    /\ UNCHANGED <<pcTitles, num_chunks, failing, next_waiting, section_title>>

\* line 154 and lines 414-417: gather returns, the titles are assigned
AssignTitles ==
    /\ pcTitles = "gather"
    /\ next_waiting > num_chunks
    /\ in_flight = {}
    /\ section_title' = AssignedTitles(num_chunks, Gather(task_result))
    /\ pcTitles' = "done"
    /\ UNCHANGED <<num_chunks, failing, semaphore, next_waiting, in_flight,
                   task_result>>

TitleStep ==
    /\ AcquireSemaphore \/ CompleteRequest \/ AssignTitles
    /\ UNCHANGED <<linkVars, pageVars, docsVars, jobVars, fileVars, wordVars, driveVars, hwp5Vars>>

NextTitles ==
    \/ AcquireSemaphore /\ UNCHANGED <<linkVars, pageVars, docsVars, jobVars, fileVars, wordVars, driveVars, hwp5Vars>>
    \/ CompleteRequest /\ UNCHANGED <<linkVars, pageVars, docsVars, jobVars, fileVars, wordVars, driveVars, hwp5Vars>>
    \/ AssignTitles /\ UNCHANGED <<linkVars, pageVars, docsVars, jobVars, fileVars, wordVars, driveVars, hwp5Vars>>

SpecTitles == InitTitles /\ [][NextTitles]_vars

\* the event loop runs every task and every request returns or raises
SpecTitlesFair == SpecTitles /\ WF_vars(TitleStep)

(***************************************************************************)
(* Claims about the section titles                                         *)
(***************************************************************************)
\* C12: while _generate_section_titles runs, at most 10 requests are in
\* flight at the same time, a finished request (failed or not) holds no
\* semaphore slot, and every chunk's request is eventually issued and
\* completes.
C12_BoundedInFlight ==
    /\ [](pcTitles # "idle" =>
            /\ Cardinality(in_flight) <= 10
            /\ semaphore = 10 - Cardinality(in_flight))
    /\ (pcTitles = "gather") ~>
          /\ \A i \in 1..num_chunks : task_result[i] # Pending
          /\ in_flight = {}
          /\ semaphore = 10

\* ten requests in flight, one of the earlier ones failed for good, and the
\* eleventh chunk still waiting for a slot
C12_Witness ==
    /\ pcTitles = "gather"
    /\ num_chunks = 11
    /\ 1 \in failing
    /\ Cardinality(in_flight) = 10
    /\ task_result[1] = EmptyTitle
    /\ 11 \in in_flight

\* C13: for every completion order the result list is index-aligned with
\* the chunks: chunk i gets the title computed from chunk i, and no
\* section_title when its request failed.
C13_TitlesIndexAligned ==
    pcTitles = "done" =>
        /\ DOMAIN section_title = 1..num_chunks
        /\ \A i \in 1..num_chunks :
              /\ task_result[i] = (IF i \in failing THEN EmptyTitle ELSE TitleOf(i))
              /\ section_title[i] = (IF i \in failing THEN Absent ELSE TitleOf(i))

\* the first request failed, the second chunk has its own title
C13_Witness ==
    /\ pcTitles = "done"
    /\ num_chunks = 2
    /\ failing = {1}
    /\ section_title = <<Absent, TitleOf(2)>>

(***************************************************************************)
(* HWP / HWPX text extraction (vendor/extract_hwp)                         *)
(*                                                                         *)
(* Stream data is a sequence of bytes (0..255); offsets count from 0 as in *)
(* the source.  Names of archive entries are sequences of code points, so  *)
(* that prefix tests, substring tests and the lexicographic order of       *)
(* sorted() are computed.  An XML element is [tag, text, children] with    *)
(* tag = <<namespace, local name>>; a missing text is the empty sequence   *)
(* (the source treats None and "" alike).                                  *)
(***************************************************************************)
Min2(a, b) == IF a < b THEN a ELSE b

\* stream.read(n)
Read(stream, n) == SubSeq(stream, 1, Min2(n, Len(stream)))

\* the same four bytes read in the opposite byte order
UnpackBigEndian(data, offset) ==
    IF offset + 4 > Len(data) THEN None
    ELSE data[offset + 4] + 256 * data[offset + 3]
         + 65536 * data[offset + 2] + 16777216 * data[offset + 1]

\* struct.unpack_from('<I', data, offset)[0]; None stands for struct.error
UnpackFrom(data, offset) ==
    IF offset + 4 > Len(data) THEN None
    ELSE data[offset + 1] + 256 * data[offset + 2]
         + 65536 * data[offset + 3] + 16777216 * data[offset + 4]

\* value & 0x02
And0x02(value) == 2 * ((value \div 2) % 2)

\* is_hwp5_password_protected(filepath)
is_hwp5_password_protected(f) ==
    IF ~f.is_ole THEN FALSE
    ELSE IF ~f.has_file_header THEN FALSE
    ELSE LET header_data == Read(f.file_header, 256)
         IN  IF Len(header_data) < 40 THEN FALSE
             ELSE And0x02(UnpackFrom(header_data, 36)) # 0

\* ord() of the characters that occur in the entry names
Ord ==
    ("-" :> 45) @@ ("." :> 46) @@ ("/" :> 47) @@ ("0" :> 48) @@ ("1" :> 49)
    @@ ("2" :> 50) @@ ("A" :> 65) @@ ("C" :> 67) @@ ("E" :> 69) @@ ("F" :> 70)
    @@ ("I" :> 73) @@ ("M" :> 77) @@ ("N" :> 78) @@ ("T" :> 84) @@ ("a" :> 97)
    @@ ("c" :> 99) @@ ("d" :> 100) @@ ("e" :> 101) @@ ("f" :> 102)
    @@ ("h" :> 104) @@ ("i" :> 105) @@ ("l" :> 108) @@ ("m" :> 109)
    @@ ("n" :> 110) @@ ("o" :> 111) @@ ("r" :> 114) @@ ("s" :> 115)
    @@ ("t" :> 116) @@ ("x" :> 120)

\* a string literal, written character by character, as code points
Codes(chars) == [n \in 1..Len(chars) |-> Ord[chars[n]]]

\* str.lower() on code points
LowerCode(c) == IF c >= 65 /\ c <= 90 THEN c + 32 ELSE c
Lower(s) == [n \in 1..Len(s) |-> LowerCode(s[n])]

StartsWith(s, prefix) == IsPrefix(prefix, s)
EndsWith(s, suffix) ==
    Len(suffix) <= Len(s) /\ SubSeq(s, Len(s) - Len(suffix) + 1, Len(s)) = suffix

\* a < b on Python strings
RECURSIVE LexLess(_, _)
LexLess(a, b) ==
    IF a = <<>> THEN b # <<>>
    ELSE IF b = <<>> THEN FALSE
    ELSE IF a[1] = b[1] THEN LexLess(Tail(a), Tail(b))
    ELSE a[1] < b[1]

\* the archive's own order, left as it is
ArchiveOrder(names) == names

InsertName(sorted, e) ==
    LET k == Cardinality({j \in 1..Len(sorted) : ~LexLess(e, sorted[j])})
    IN  SubSeq(sorted, 1, k) \o <<e>> \o SubSeq(sorted, k + 1, Len(sorted))

\* sorted(names)
RECURSIVE Sorted(_)
Sorted(names) ==
    IF names = <<>> THEN <<>>
    ELSE InsertName(Sorted(SubSeq(names, 1, Len(names) - 1)), Last(names))

ContentsSection == Codes(<<"C","o","n","t","e","n","t","s","/","s","e","c","t","i","o","n">>)
ContentsLower == Codes(<<"c","o","n","t","e","n","t","s">>)
DotXml == Codes(<<".","x","m","l">>)
ManifestPath ==
    Codes(<<"M","E","T","A","-","I","N","F","/","m","a","n","i","f","e","s","t",".","x","m","l">>)

\* tag.endswith('}' + local) on ElementTree's "{namespace}local" tags
TagEndsWith(tag, local) == tag[1] # "" /\ tag[2] = local

\* root.iter(): the element and its descendants in document order
RECURSIVE IterForest(_)
IterForest(forest) ==
    IF forest = <<>> THEN <<>>
    ELSE <<forest[1]>> \o IterForest(forest[1].children) \o IterForest(Tail(forest))

Iter(element) == IterForest(<<element>>)

\* zipf.namelist()
NameList(f) == [n \in 1..Len(f.entries) |-> f.entries[n].name]

\* zipf.read(name) followed by ET.fromstring
EntryNamed(f, name) == f.entries[CHOOSE n \in 1..Len(f.entries) : f.entries[n].name = name]

\* is_hwpx_password_protected(filepath); every exception gives False
is_hwpx_password_protected(f) ==
    IF ~f.is_zip THEN FALSE
    ELSE IF ~InSeq(ManifestPath, NameList(f)) THEN FALSE
    ELSE LET manifest == EntryNamed(f, ManifestPath)
         IN  IF ~manifest.well_formed THEN FALSE
             ELSE \E n \in 1..Len(Iter(manifest.root)) :
                      Iter(manifest.root)[n].tag[2] = "encryption-data"

\* is_hwp_file_password_protected(filepath)
is_hwp_file_password_protected(f) ==
    IF f.ext = ".hwpx" THEN is_hwpx_password_protected(f)
    ELSE IF f.ext = ".hwp" THEN is_hwp5_password_protected(f)
    ELSE FALSE

IsTextRun(node) == TagEndsWith(node.tag, "t") /\ node.text # <<>>
IsParagraph(node) == TagEndsWith(node.tag, "p")

TextsOf(nodes) == [n \in 1..Len(nodes) |-> nodes[n].text]

\* "".join(node.text for node in p_element.iter() if ...)
ParagraphLine(p_element) == JoinSeq(TextsOf(SelectSeq(Iter(p_element), IsTextRun)), <<>>)

KeepLine(line) == Strip(line) # <<>>

\* lines_in_section of one section root
LinesInSection(root) ==
    LET paragraphs == SelectSeq(Iter(root), IsParagraph)
        lines == [n \in 1..Len(paragraphs) |-> ParagraphLine(paragraphs[n])]
    IN  SelectSeq(lines, KeepLine)

\* if lines_in_section: a section without a kept line adds no block
KeepSectionText(text) == text # <<>>

IsSectionFile(name) == StartsWith(name, ContentsSection) /\ EndsWith(name, DotXml)

\* extract_text_from_hwpx(hwpx_file_path); every exception gives ""
extract_text_from_hwpx(f) ==
    IF ~f.is_zip THEN <<>>
    ELSE LET section_files == Sorted(SelectSeq(NameList(f), IsSectionFile))
             sections == [n \in 1..Len(section_files) |-> EntryNamed(f, section_files[n])]
             section_texts ==
                 [n \in 1..Len(sections) |-> JoinSeq(LinesInSection(sections[n].root), <<NL>>)]
         IN  IF section_files = <<>> THEN <<>>
             ELSE IF \E n \in 1..Len(sections) : ~sections[n].well_formed THEN <<>>
             ELSE JoinSeq(SelectSeq(section_texts, KeepSectionText), <<NL, NL>>)

\* HWP5_PARA_TEXT_TAG_ID
HWP5_PARA_TEXT_TAG_ID == 67

\* header_value & 0x3FF and (header_value >> 20) & 0xFFF
TagId(header_value) == header_value % 1024
RecordSize(header_value) == (header_value \div 1048576) % 4096

\* struct.unpack_from('<H', record_data, text_offset)[0]
UnpackChar(record_data, text_offset) ==
    record_data[text_offset + 1] + 256 * record_data[text_offset + 2]

\* chr(char_code) as a text item
Chr(char_code) == IF char_code = 32 THEN Ch(" ") ELSE <<"chr", char_code, 0>>

IsValidChar(char_code) ==
    \/ 32 <= char_code /\ char_code <= 126
    \/ 44032 <= char_code /\ char_code <= 55215
    \/ 12592 <= char_code /\ char_code <= 12687
    \/ 65280 <= char_code /\ char_code <= 65519
    \/ 8192 <= char_code /\ char_code <= 8303

\* what one 2-byte code appends to text_parts
CharText(char_code) ==
    IF char_code < 32
    THEN IF char_code \in {10, 13} THEN <<NL>>
         ELSE IF char_code = 9 THEN <<Ch("\t")>>
         ELSE <<>>
    ELSE IF IsValidChar(char_code) THEN <<Chr(char_code)>> ELSE <<>>

\* the inner loop over record_data; a trailing odd byte is left out
RECURSIVE RecordText(_, _)
RecordText(record_data, text_offset) ==
    IF text_offset >= Len(record_data) \/ text_offset + 2 > Len(record_data) THEN <<>>
    ELSE CharText(UnpackChar(record_data, text_offset))
         \o RecordText(record_data, text_offset + 2)

\* a record of invalid size ends the scan of the stream
OffsetAfterInvalidSizeAbort(data, offset) == Len(data)

\* `continue` before offset += 4: the same header is read again
OffsetAfterInvalidSizeStuck(data, offset) == offset

\* `continue` after offset += 4: only the header of the record is passed
OffsetAfterInvalidSize(data, offset) == offset + 4

InvalidSize(data, offset) ==
    LET size == RecordSize(UnpackFrom(data, offset))
    IN  size = 0 \/ offset + 4 + size > Len(data)

\* one iteration of `while offset < len(data)` whose header could be read:
\* the next offset and the texts it yields
RecordStep(data, offset) ==
    LET header_value == UnpackFrom(data, offset)
        tag_id == TagId(header_value)
        size == RecordSize(header_value)
    IN  IF InvalidSize(data, offset)
        THEN [offset |-> OffsetAfterInvalidSize(data, offset), yielded |-> <<>>]
        ELSE [offset |-> offset + 4 + size,
              yielded |-> IF tag_id = HWP5_PARA_TEXT_TAG_ID
                          THEN <<RecordText(SubSeq(data, offset + 5, offset + 4 + size), 0)>>
                          ELSE <<>>]

\* the texts _parse_text_from_stream yields from `offset` on
RECURSIVE ParseFrom(_, _)
ParseFrom(data, offset) ==
    IF offset >= Len(data) THEN <<>>
    ELSE IF UnpackFrom(data, offset) = None THEN <<>>
    ELSE RecordStep(data, offset).yielded \o ParseFrom(data, RecordStep(data, offset).offset)

parse_text_from_stream(data) == ParseFrom(data, 0)

\* extract_text_from_hwp5(filepath); f.sections are BodyText/Section0, 1, ...
\* after decompression
extract_text_from_hwp5(f) ==
    IF ~f.is_ole THEN <<>>
    ELSE IF ~f.has_file_header THEN <<>>
    ELSE IF ~f.has_summary THEN <<>>
    ELSE LET section_text_parts ==
                 [n \in 1..Len(f.sections) |->
                     JoinSeq(parse_text_from_stream(f.sections[n]), <<>>)]
         IN  Strip(JoinSeq(section_text_parts, <<>>))

\* the second element of the (text, error) pairs; NoError is None
NoError == "None"
PasswordProtected == "password protected file"
EmptyContent == "text extraction failed: empty content"
InstallExtractHwp == "install extract-hwp"
ContentsNotFound == "HWPX: section or contents XML not found"
ExceptionText == "str(e)"

\* the probe's answer is not looked at
ProbeIgnored(f) == FALSE

\* if is_hwp_file_password_protected(filepath)
ProbeSaysProtected(f) == is_hwp_file_password_protected(f)

\* extract_text_from_hwp(filepath) of the vendored package: the pair it
\* returns and the extractors it invoked on the way
extract_text_from_hwp(f) ==
    IF ProbeSaysProtected(f)
    THEN [text |-> <<>>, error |-> PasswordProtected, calls |-> {"is_hwp_file_password_protected"}]
    ELSE LET content == IF f.ext = ".hwpx" THEN extract_text_from_hwpx(f)
                        ELSE extract_text_from_hwp5(f)
             extractor == IF f.ext = ".hwpx" THEN "extract_text_from_hwpx"
                          ELSE "extract_text_from_hwp5"
         IN  IF content # <<>>
             THEN [text |-> Strip(content), error |-> NoError,
                   calls |-> {"is_hwp_file_password_protected", extractor}]
             ELSE [text |-> <<>>, error |-> EmptyContent,
                   calls |-> {"is_hwp_file_password_protected", extractor}]

\* the raw XML of an element: every tag is one item, the text is in between
RECURSIVE SerializeForest(_)
SerializeForest(forest) ==
    IF forest = <<>> THEN <<>>
    ELSE <<<<"tag", forest[1].tag[2], 0>>>> \o forest[1].text
         \o SerializeForest(forest[1].children)
         \o <<<<"tag", forest[1].tag[2], 1>>>>
         \o SerializeForest(Tail(forest))

Serialize(root) == SerializeForest(<<root>>)

\* re.sub(r"<[^>]+>", " ", raw)
StripTags(raw) == [n \in 1..Len(raw) |-> IF raw[n][1] = "tag" THEN Ch(" ") ELSE raw[n]]

\* re.sub(r"\s+", " ", text)
RECURSIVE CollapseWhitespace(_)
CollapseWhitespace(text) ==
    IF text = <<>> THEN <<>>
    ELSE IF IsWhitespace(text[1])
    THEN <<Ch(" ")>> \o CollapseWhitespace(LStrip(text))
    ELSE <<text[1]>> \o CollapseWhitespace(Tail(text))

IsFallbackSectionFile(name) == IsSubstring(ContentsSection, name) /\ EndsWith(name, DotXml)
IsContentsFile(name) == IsSubstring(ContentsLower, Lower(name)) /\ EndsWith(name, DotXml)

\* the .hwpx branch of _extract_text_from_hwp_or_hwpx that runs when the
\* extract_hwp package cannot be imported
FallbackHwpx(f) ==
    IF ~f.is_zip THEN [text |-> <<>>, error |-> ExceptionText, calls |-> {}]
    ELSE LET names == NameList(f)
             section_files == Sorted(SelectSeq(names, IsFallbackSectionFile))
             content_names == SelectSeq(names, IsContentsFile)
             roots == [n \in 1..Len(section_files) |-> EntryNamed(f, section_files[n])]
             texts == [n \in 1..Len(roots) |-> JoinSeq(LinesInSection(roots[n].root), <<NL>>)]
         IN  IF section_files = <<>>
             THEN IF content_names = <<>>
                  THEN [text |-> <<>>, error |-> ContentsNotFound, calls |-> {}]
                  ELSE [text |-> Strip(CollapseWhitespace(StripTags(
                                    Serialize(EntryNamed(f, content_names[1]).root)))),
                        error |-> NoError, calls |-> {}]
             ELSE IF \E n \in 1..Len(roots) : ~roots[n].well_formed
             THEN [text |-> <<>>, error |-> ExceptionText, calls |-> {}]
             ELSE [text |-> JoinSeq(SelectSeq(texts, KeepSectionText), <<NL, NL>>),
                   error |-> NoError, calls |-> {}]

\* _extract_text_from_hwp_or_hwpx(file_path, file_extension); f.importable
\* says whether `from extract_hwp import extract_text_from_hwp` succeeds
extract_text_from_hwp_or_hwpx(f) ==
    IF f.importable THEN extract_text_from_hwp(f)
    ELSE IF f.ext = ".hwp"
    THEN [text |-> <<>>, error |-> InstallExtractHwp, calls |-> {}]
    ELSE FallbackHwpx(f)

(***************************************************************************)
(* load_document at the file-level boundary                                *)
(***************************************************************************)
Returned(value) == [outcome |-> "return", value |-> value]
Raised == [outcome |-> "raise", value |-> <<>>]

Documents(docs) == [kind |-> "documents", documents |-> docs]
NoDocuments == [kind |-> "None", documents |-> <<>>]
Escaped == [kind |-> "raised", documents |-> <<>>]

SupportedByLoader == {".txt", ".docx", ".pptx", ".xlsx", ".pdf"}

\* _load_pdf_with_pdfplumber: one Document per page, in page order
load_pdf_with_pdfplumber(pages) == [n \in 1..Len(pages) |-> LoadPdfPage(pages[n], n - 1)]

\* the body of the try block of load_document: the value it returns, or the
\* exception a parser (or the clean-up of the temporary file) raises
LoadDocumentBody(f) ==
    IF f.ext \in SupportedByLoader
    THEN IF f.parse # "ok" THEN Raised
         ELSE IF f.ext = ".pdf" THEN Returned(Documents(load_pdf_with_pdfplumber(f.pages)))
         ELSE Returned(Documents(f.parsed))
    ELSE IF f.ext \in {".hwp", ".hwpx"}
    THEN IF f.parse # "ok" THEN Raised
         ELSE IF extract_text_from_hwp_or_hwpx(f).error # NoError THEN Returned(NoDocuments)
         ELSE Returned(Documents(<<TextDocument(extract_text_from_hwp_or_hwpx(f).text)>>))
    ELSE Returned(NoDocuments)

\* the exception leaves load_document
ExceptionPropagates(body) == IF body.outcome = "raise" THEN Escaped ELSE body.value

\* except Exception: return None
ExceptException(body) == IF body.outcome = "raise" THEN NoDocuments ELSE body.value

load_document(f) == ExceptException(LoadDocumentBody(f))

\* the error load_document gets from _extract_text_from_hwp_or_hwpx and
\* prints; "" when that function is not reached
ExtractionError(f) ==
    IF f.ext \in {".hwp", ".hwpx"} /\ f.parse = "ok"
    THEN extract_text_from_hwp_or_hwpx(f).error
    ELSE ""

\* load_document writes the upload into a NamedTemporaryFile(delete=False)
\* for every format but .txt
CreatesTempFile(f) == f.ext \in {".docx", ".pptx", ".xlsx", ".pdf", ".hwp", ".hwpx"}

\* the temporary files a call leaves behind: the file is created and
\* written inside the `with` block, and the try / finally that unlinks it
\* starts after that block
TempFilesAfterCall(created, write_raises) ==
    IF write_raises THEN created ELSE created \ created

TempFilesAfterLoad(f) ==
    TempFilesAfterCall(IF CreatesTempFile(f) THEN {<<"load_document", 1>>} ELSE {},
                       f.parse = "write raises")

TempFilesAfterExtraction(outcome, call) ==
    TempFilesAfterCall({<<"_extract_images_from_pdf", call>>}, outcome = "write raises")

\* str(n) for a natural number, digit by digit
RECURSIVE Digits(_)
Digits(n) == IF n < 10 THEN <<n>> ELSE Digits(n \div 10) \o <<n % 10>>

\* f"{file_id}_page{page_num+1}_img{img_index}"
LoaderImageId(file_id, page_number, img_index) ==
    <<file_id, "_page">> \o Digits(page_number) \o <<"_img">> \o Digits(img_index)

\* saved_image['file_id']: the id files().create gave to the uploaded copy
DriveImageId(drive_id) == <<"drive id", drive_id>>

\* the images of the pages from page_num on (page_num counts from 0);
\* drive_id is the id the next created Drive file gets
RECURSIVE ImagesFrom(_, _, _, _)
ImagesFrom(path, pages, pnum, drive_id) ==
    IF pnum >= Len(pages) THEN <<>>
    ELSE LET image_list == pages[pnum + 1].images
         IN  [k \in 1..Len(image_list) |->
                 [image_id |-> IF path = "loader"
                               THEN LoaderImageId("file_id", pnum + 1, k - 1)
                               ELSE DriveImageId(drive_id + k - 1),
                  page_number |-> pnum + 1,
                  image_index |-> k - 1]]
             \o ImagesFrom(path, pages, pnum + 1, drive_id + Len(image_list))

\* _extract_images_from_pdf of DocumentProcessor and of GoogleDriveLoader
extract_images_from_pdf(path, pages, outcome, drive_id) ==
    IF outcome = "ok" THEN ImagesFrom(path, pages, 0, drive_id) ELSE <<>>

\* the extract_hwp functions a call of load_document invokes
ExtractorCalls(f) ==
    IF f.ext \in {".hwp", ".hwpx"} /\ f.parse = "ok"
    THEN extract_text_from_hwp_or_hwpx(f).calls
    ELSE {}

(***************************************************************************)
(* The files handed to load_document                                       *)
(***************************************************************************)
MaxRecords == 3
MaxExtractions == 2
MaxEntries == 3

\* ---- FileHeader streams: zero bytes except the properties field --------
HeaderLengths == {0, 36, 39, 40, 41, 256}
PropertyBytes ==
    {<<b0, b1, b2, b3>> : b0 \in {0, 1, 2, 3, 253, 254}, b1 \in {0, 2},
                          b2 \in {0, 2}, b3 \in {0, 2, 127}}

FileHeader(length, properties) ==
    [k \in 1..length |-> IF k \in 37..40 THEN properties[k - 36] ELSE 0]

FileHeaders == {FileHeader(l, p) : l \in HeaderLengths, p \in PropertyBytes}

PlainHeader == FileHeader(256, <<0, 0, 0, 0>>)
PasswordHeader == FileHeader(256, <<2, 0, 0, 0>>)

\* ---- record streams: records laid out as hwp5.py reads them ------------
RecordHeader(tag_id, size) ==
    LET header_value == tag_id + 1048576 * size
    IN  <<header_value % 256, (header_value \div 256) % 256,
          (header_value \div 65536) % 256, header_value \div 16777216>>

TextRecordA == RecordHeader(67, 4) \o <<65, 0, 32, 0>>
TextRecordB == RecordHeader(67, 2) \o <<66, 0>>
OtherRecord == RecordHeader(66, 2) \o <<65, 0>>
ZeroSizeRecord == RecordHeader(67, 0)
OverrunRecord == RecordHeader(67, 7)
StrayBytes == <<10, 0>>

RecordPool ==
    {TextRecordA, TextRecordB, OtherRecord, ZeroSizeRecord, OverrunRecord, StrayBytes}

Streams == {JoinSeq(records, <<>>) : records \in SeqsUpTo(RecordPool, MaxRecords)}

\* ---- XML trees of archive entries --------------------------------------
Hp == "http://www.hancom.co.kr/hwpml/2011/paragraph"

Element(tag, text, children) == [tag |-> tag, text |-> text, children |-> children]
T(text) == Element(<<Hp, "t">>, text, <<>>)
Run(children) == Element(<<Hp, "run">>, <<>>, children)
P(children) == Element(<<Hp, "p">>, <<>>, children)
Sec(children) == Element(<<Hp, "sec">>, <<>>, children)

TwoParagraphs == Sec(<<P(<<Run(<<T(<<Ch("a")>>), T(<<Ch(".")>>)>>)>>), P(<<Run(<<T(<<Ch("b")>>)>>)>>)>>)
BlankParagraph == Sec(<<P(<<Run(<<T(<<Ch(" ")>>)>>)>>), P(<<Run(<<T(<<>>)>>)>>), P(<<Run(<<T(<<Ch(" "), Ch("c")>>)>>)>>)>>)
NestedParagraph == Sec(<<P(<<Run(<<T(<<Ch("a")>>), Element(<<Hp, "tbl">>, <<>>, <<P(<<Run(<<T(<<Ch("c")>>)>>)>>)>>)>>)>>)>>)
NoParagraph == Sec(<<Element(<<"", "p">>, <<>>, <<T(<<Ch("a")>>)>>)>>)

SectionRoots == {TwoParagraphs, BlankParagraph, NestedParagraph, NoParagraph}

PlainManifest == Element(<<"odf", "manifest">>, <<>>, <<Element(<<"odf", "file-entry">>, <<>>, <<>>)>>)
EncryptedManifest ==
    Element(<<"odf", "manifest">>, <<>>,
            <<Element(<<"odf", "file-entry">>, <<>>, <<Element(<<"odf", "encryption-data">>, <<>>, <<>>)>>)>>)

HeaderRoot == Element(<<"hh", "head">>, <<>>, <<Element(<<"hh", "title">>, <<Ch("a"), NL, Ch(" "), Ch("b")>>, <<>>), T(<<Ch("c")>>)>>)

SectionName(digits) == ContentsSection \o Codes(digits) \o DotXml
SectionNames == {SectionName(<<"1">>), SectionName(<<"1", "0">>), SectionName(<<"2">>)}
HeaderName == Codes(<<"C","o","n","t","e","n","t","s","/","h","e","a","d","e","r",".","x","m","l">>)

Entry(name, root, well_formed) == [name |-> name, root |-> root, well_formed |-> well_formed]

EntryPool ==
    {Entry(n, r, TRUE) : n \in SectionNames, r \in SectionRoots}
    \cup {Entry(SectionName(<<"2">>), NoParagraph, FALSE)}
    \cup {Entry(ManifestPath, PlainManifest, TRUE), Entry(ManifestPath, EncryptedManifest, TRUE),
          Entry(ManifestPath, PlainManifest, FALSE)}
    \cup {Entry(HeaderName, HeaderRoot, TRUE)}

\* a zip archive has one entry per name
Archives ==
    {entries \in SeqsUpTo(EntryPool, MaxEntries) :
        \A i, j \in 1..Len(entries) : i # j => entries[i].name # entries[j].name}

\* ---- uploads ------------------------------------------------------------
Upload(ext) ==
    [ext |-> ext, parse |-> "ok", parsed |-> <<>>, pages |-> <<>>, importable |-> TRUE,
     is_ole |-> FALSE, has_file_header |-> FALSE, has_summary |-> FALSE,
     file_header |-> <<>>, sections |-> <<>>,
     is_zip |-> FALSE, entries |-> <<>>]

OtherUploads ==
    {[Upload(ext) EXCEPT !.parse = p, !.parsed = <<TextDocument(<<Ch("a")>>)>>] :
        ext \in SupportedByLoader \cup {".exe", ""}, p \in {"ok", "raises", "write raises"}}

PdfUploads ==
    {[Upload(".pdf") EXCEPT !.pages = pages] : pages \in SeqsUpTo(DocLayouts, MaxPages)}

\* .hwp files that differ in the FileHeader stream
HwpHeaderUploads ==
    {[Upload(".hwp") EXCEPT !.is_ole = o, !.has_file_header = h, !.has_summary = TRUE,
                            !.file_header = fh, !.sections = <<TextRecordA>>] :
        o \in BOOLEAN, h \in BOOLEAN, fh \in FileHeaders}

\* .hwp files that differ in the body text
HwpBodyUploads ==
    {[Upload(".hwp") EXCEPT !.is_ole = TRUE, !.has_file_header = TRUE, !.has_summary = s,
                            !.file_header = fh, !.sections = ss, !.importable = i,
                            !.parse = p] :
        s \in BOOLEAN, fh \in {PlainHeader, PasswordHeader}, i \in BOOLEAN,
        p \in {"ok", "raises"},
        ss \in {<<st>> : st \in Streams} \cup {<<>>, <<TextRecordA, TextRecordB>>}}

HwpxUploads ==
    {[Upload(".hwpx") EXCEPT !.is_zip = z, !.entries = e, !.importable = i] :
        z \in BOOLEAN, i \in BOOLEAN, e \in Archives}

Uploads == OtherUploads \cup PdfUploads \cup HwpHeaderUploads \cup HwpBodyUploads \cup HwpxUploads

InitFile ==
    /\ pcFile = "called"
    /\ upload \in Uploads
    /\ load_result = <<>>
    /\ extractor_calls = {}
    /\ extraction_error = ""
    /\ temp_files = {}
    /\ extractions = <<>>
    /\ next_drive_id = 1
    /\ IdleLink
    /\ IdlePage
    /\ IdleDocs
    /\ IdleJob
    /\ IdleTitles
    /\ IdleWords
    /\ IdleDrive
    /\ IdleHwp5

\* one call of load_document
LoadDocumentCall ==
    /\ pcFile = "called"
    /\ pcFile' = "returned"
    /\ load_result' = load_document(upload)
    /\ extractor_calls' = ExtractorCalls(upload)
    /\ extraction_error' = ExtractionError(upload)
    /\ temp_files' = temp_files \cup TempFilesAfterLoad(upload)
    /\ UNCHANGED <<upload, extractions, next_drive_id, linkVars, pageVars, docsVars, jobVars, titleVars, wordVars, driveVars, hwp5Vars>>

\* one call of extract_images_from_document for the uploaded PDF, through
\* DocumentProcessor ("loader") or GoogleDriveLoader ("drive")
ExtractImagesCall ==
    /\ pcFile = "returned"
    /\ upload.ext = ".pdf"
    /\ Len(extractions) < MaxExtractions
    /\ \E path \in {"loader", "drive"}, outcome \in {"ok", "open raises", "write raises"} :
          /\ extractions' = Append(extractions,
                 [path |-> path, outcome |-> outcome,
                  images |-> extract_images_from_pdf(path, upload.pages, outcome, next_drive_id)])
          /\ next_drive_id' = next_drive_id
                 + (IF path = "drive"
                    THEN Len(extract_images_from_pdf(path, upload.pages, outcome, next_drive_id))
                    ELSE 0)
          /\ temp_files' = temp_files
                 \cup TempFilesAfterExtraction(outcome, Len(extractions) + 1)
    /\ UNCHANGED <<pcFile, upload, load_result, extractor_calls, extraction_error,
                   linkVars, pageVars, docsVars, jobVars, titleVars, wordVars, driveVars, hwp5Vars>>

NextFile == LoadDocumentCall \/ ExtractImagesCall

SpecFile == InitFile /\ [][NextFile]_vars

(***************************************************************************)
(* Claims about load_document and the HWP / HWPX extraction                *)
(***************************************************************************)
\* C14: load_document never raises: whatever the file name and content, it
\* returns a list of Documents or None; an unknown extension gives None and
\* an exception raised inside a format parser gives None.
C14_NeverRaises ==
    pcFile = "returned" =>
        /\ load_result.kind \in {"documents", "None"}
        /\ upload.ext \notin SupportedByLoader \cup {".hwp", ".hwpx"} => load_result.kind = "None"
        /\ upload.parse = "raises" /\ upload.ext \in SupportedByLoader \cup {".hwp", ".hwpx"}
              => load_result.kind = "None"

\* a PDF whose parser raised: load_document returned None
C14_Witness ==
    /\ pcFile = "returned"
    /\ upload.ext = ".pdf"
    /\ upload.parse = "raises"
    /\ load_result = NoDocuments

\* the container of a HWP / HWPX file opens and every part of it is readable
ContainerOpens(f) ==
    IF f.ext = ".hwp" THEN f.is_ole /\ f.has_file_header /\ f.has_summary
    ELSE f.is_zip /\ \A n \in 1..Len(f.entries) : f.entries[n].well_formed

\* C15: a HWP / HWPX file whose container opens is never dropped: be it
\* password-protected, with a malformed record or without any text,
\* load_document returns a (possibly empty) Document for it, never None.
C15_OnlyCorruptContainerDrops ==
    (/\ pcFile = "returned"
     /\ upload.ext \in {".hwp", ".hwpx"}
     /\ upload.parse = "ok"
     /\ upload.importable
     /\ ContainerOpens(upload))
        => load_result.kind = "documents"

\* C16: when the password probe reports the file as protected,
\* extract_text_from_hwp calls neither extract_text_from_hwp5 nor
\* extract_text_from_hwpx, and what it reports is the password-protected
\* diagnostic, not parsed text.
C16_PasswordShortCircuit ==
    (/\ pcFile = "returned"
     /\ upload.ext \in {".hwp", ".hwpx"}
     /\ upload.parse = "ok"
     /\ upload.importable
     /\ is_hwp_file_password_protected(upload))
        => /\ extractor_calls \cap {"extract_text_from_hwp5", "extract_text_from_hwpx"} = {}
           /\ extraction_error = PasswordProtected
           /\ load_result.kind # "documents"

\* an archive with text in a section and encryption-data in its manifest
C16_Witness ==
    /\ pcFile = "returned"
    /\ upload.ext = ".hwpx"
    /\ upload.is_zip
    /\ upload.importable
    /\ upload.entries = <<Entry(SectionName(<<"1">>), TwoParagraphs, TRUE),
                          Entry(ManifestPath, EncryptedManifest, TRUE)>>
    /\ extractor_calls = {"is_hwp_file_password_protected"}
    /\ extraction_error = PasswordProtected

\* the number of bytes of the FileHeader stream that can be read
AvailableHeaderBytes(f) ==
    IF f.is_ole /\ f.has_file_header THEN Len(f.file_header) ELSE 0

\* bit 1 of the byte at offset 36, the low byte of the little-endian field
Bit1AtOffset36(f) == (f.file_header[37] \div 2) % 2 = 1

\* C17: a .hwp file is reported as password-protected exactly when at
\* least 40 bytes of its FileHeader stream are available and bit 1 of the
\* little-endian 32-bit value at offset 36 is set, whatever the other bits
\* and bytes are.
C17_PasswordBit ==
    (/\ pcFile = "returned"
     /\ upload.ext = ".hwp"
     /\ upload.parse = "ok"
     /\ upload.importable)
        => LET expected == AvailableHeaderBytes(upload) >= 40 /\ Bit1AtOffset36(upload)
           IN  /\ is_hwp5_password_protected(upload) <=> expected
               /\ (extraction_error = PasswordProtected) <=> expected

\* a header of exactly 40 bytes whose properties field is 0x00000002
C17_Witness ==
    /\ pcFile = "returned"
    /\ upload.ext = ".hwp"
    /\ upload.is_ole
    /\ upload.has_file_header
    /\ upload.file_header = FileHeader(40, <<2, 0, 0, 0>>)
    /\ extraction_error = PasswordProtected

\* the fields of the record header at `offset`, read from its bytes: the
\* size is bits 20..31 and the tag bits 0..9 of the little-endian word
SizeField(data, offset) == (data[offset + 3] \div 16) + 16 * data[offset + 4]
TagField(data, offset) == data[offset + 1] + 256 * (data[offset + 2] % 4)

\* the texts of the PARA_TEXT records from `offset` on when a record of
\* size 0, or one that runs past the end of the data, costs its 4-byte
\* header and nothing else
RECURSIVE TextsSkippingHeaders(_, _)
TextsSkippingHeaders(data, offset) ==
    IF offset + 4 > Len(data) THEN <<>>
    ELSE IF SizeField(data, offset) = 0 \/ offset + 4 + SizeField(data, offset) > Len(data)
    THEN TextsSkippingHeaders(data, offset + 4)
    ELSE (IF TagField(data, offset) = 67
          THEN <<RecordText(SubSeq(data, offset + 5, offset + 4 + SizeField(data, offset)), 0)>>
          ELSE <<>>)
         \o TextsSkippingHeaders(data, offset + 4 + SizeField(data, offset))

ExpectedHwpText(f) ==
    Strip(JoinSeq([n \in 1..Len(f.sections) |->
                      JoinSeq(TextsSkippingHeaders(f.sections[n], 0), <<>>)], <<>>))

\* C18: a record whose size is 0 or runs past the end of the section data
\* costs only its 4-byte header: the texts of the valid PARA_TEXT records
\* before it are produced and the scan goes on with the bytes after the
\* header, so the text of the file is that of all its valid records.
C18_InvalidRecordSkipsHeaderOnly ==
    (/\ pcFile = "returned"
     /\ upload.ext = ".hwp"
     /\ upload.parse = "ok"
     /\ upload.importable
     /\ ContainerOpens(upload)
     /\ ~is_hwp5_password_protected(upload))
        => /\ \A n \in 1..Len(upload.sections) :
                 parse_text_from_stream(upload.sections[n])
                     = TextsSkippingHeaders(upload.sections[n], 0)
           /\ ExpectedHwpText(upload) # <<>>
                 => load_result = Documents(<<TextDocument(ExpectedHwpText(upload))>>)

\* a text record, a record that declares 7 bytes where 6 are left, and a
\* second text record: both texts are in the document
C18_Witness ==
    /\ pcFile = "returned"
    /\ upload.ext = ".hwp"
    /\ upload.importable
    /\ upload.sections = <<TextRecordA \o OverrunRecord \o TextRecordB>>
    /\ load_result = Documents(<<TextDocument(<<Chr(65), Ch(" "), Chr(66)>>)>>)

\* the texts of the text runs of a forest, concatenated in document order
RECURSIVE DescendantText(_)
DescendantText(forest) ==
    IF forest = <<>> THEN <<>>
    ELSE (IF TagEndsWith(forest[1].tag, "t") THEN forest[1].text ELSE <<>>)
         \o DescendantText(forest[1].children)
         \o DescendantText(Tail(forest))

\* the paragraph elements of a forest in document order, nested ones too
RECURSIVE ParagraphsOf(_)
ParagraphsOf(forest) ==
    IF forest = <<>> THEN <<>>
    ELSE (IF TagEndsWith(forest[1].tag, "p") THEN <<forest[1]>> ELSE <<>>)
         \o ParagraphsOf(forest[1].children)
         \o ParagraphsOf(Tail(forest))

HasNonWhitespace(line) == \E n \in 1..Len(line) : ~IsWhitespace(line[n])

\* the kept lines of a section, joined by single newlines
SectionBlock(root) ==
    LET paragraphs == ParagraphsOf(<<root>>)
        lines == [n \in 1..Len(paragraphs) |-> DescendantText(<<paragraphs[n]>>)]
    IN  JoinSeq(SelectSeq(lines, HasNonWhitespace), <<NL>>)

\* the positions of the Contents/section*.xml entries in the archive
SectionEntries(f) ==
    {n \in 1..Len(f.entries) :
        StartsWith(f.entries[n].name, ContentsSection) /\ EndsWith(f.entries[n].name, DotXml)}

\* those positions in the lexicographic order of the entry names
LexicographicOrder(f) ==
    CHOOSE order \in [1..Cardinality(SectionEntries(f)) -> SectionEntries(f)] :
        \A i, j \in DOMAIN order :
            i < j => LexLess(f.entries[order[i]].name, f.entries[order[j]].name)

ExpectedHwpxText(f) ==
    LET order == LexicographicOrder(f)
        blocks == [n \in DOMAIN order |-> SectionBlock(f.entries[order[n]].root)]
    IN  JoinSeq(SelectSeq(blocks, HasNonWhitespace), <<NL, NL>>)

\* C19: the text of a HWPX archive is made of one block per
\* Contents/section*.xml entry, in the lexicographic order of the entry
\* names and separated by double newlines; a block is the section's
\* paragraphs, each the concatenation of its descendant text runs, without
\* those that hold no non-whitespace character, joined by single newlines.
C19_SectionsAndParagraphs ==
    (/\ pcFile = "returned"
     /\ upload.ext = ".hwpx"
     /\ upload.parse = "ok"
     /\ upload.importable
     /\ ContainerOpens(upload)
     /\ SectionEntries(upload) # {}
     /\ ~is_hwpx_password_protected(upload))
        => /\ extract_text_from_hwpx(upload) = ExpectedHwpxText(upload)
           /\ ExpectedHwpxText(upload) # <<>>
                 => load_result = Documents(<<TextDocument(Strip(ExpectedHwpxText(upload)))>>)

\* section2 before section10 in the archive, two non-empty paragraphs in
\* each: two blocks of two lines, section10's first
C19_Witness ==
    /\ pcFile = "returned"
    /\ upload.ext = ".hwpx"
    /\ upload.is_zip
    /\ upload.importable
    /\ upload.entries = <<Entry(SectionName(<<"2">>), TwoParagraphs, TRUE),
                          Entry(SectionName(<<"1", "0">>), NestedParagraph, TRUE)>>
    /\ load_result = Documents(<<TextDocument(
           <<Ch("a"), Ch("c"), NL, Ch("c"), NL, NL, Ch("a"), Ch("."), NL, Ch("b")>>)>>)

\* the positions of the entries whose path contains "contents" in any case
ContentsEntries(f) ==
    {n \in 1..Len(f.entries) : IsSubstring(ContentsLower, Lower(f.entries[n].name))}

FirstContentsEntry(f) == f.entries[SetMin(ContentsEntries(f))]

\* C20: a HWPX archive without a Contents/section*.xml entry is not a
\* failure: load_document returns the text of the first entry whose path
\* contains "contents", with the tags stripped.
C20_FallbackToContents ==
    (/\ pcFile = "returned"
     /\ upload.ext = ".hwpx"
     /\ upload.parse = "ok"
     /\ ContainerOpens(upload)
     /\ ~is_hwpx_password_protected(upload)
     /\ SectionEntries(upload) = {}
     /\ ContentsEntries(upload) # {})
        => load_result = Documents(<<TextDocument(
               Strip(CollapseWhitespace(StripTags(Serialize(FirstContentsEntry(upload).root)))))>>)

IsText(x) == DOMAIN x = 1..Len(x)

NoElement(layout) == layout.tables = <<>> /\ layout.text_blocks = <<>> /\ layout.images = <<>>

\* a HWP / HWPX file that opens, is not protected, and holds no text
ReadableWithoutText(f) ==
    /\ f.ext \in {".hwp", ".hwpx"}
    /\ f.importable
    /\ ContainerOpens(f)
    /\ ~is_hwp_file_password_protected(f)
    /\ IF f.ext = ".hwp" THEN ExpectedHwpText(f) = <<>>
       ELSE SectionEntries(f) # {} /\ ExpectedHwpxText(f) = <<>>

\* C21 (the part about PDF files and about the returned Documents): every
\* Document load_document returns has a text, a PDF of k pages gives k
\* Documents with page 0..k-1 in order, and a page without any element
\* gives the empty text.
C21_PdfPagesKept ==
    (pcFile = "returned" /\ load_result.kind = "documents")
        => /\ \A n \in 1..Len(load_result.documents) :
                 IsText(load_result.documents[n].page_content)
           /\ upload.ext = ".pdf"
                 => /\ Len(load_result.documents) = Len(upload.pages)
                    /\ \A n \in 1..Len(upload.pages) :
                          /\ load_result.documents[n].page = n - 1
                          /\ NoElement(upload.pages[n])
                                => load_result.documents[n].page_content = <<>>

\* C21: absent content is the empty text of a Document, never a missing
\* Document: what holds for the pages of a PDF also holds for a readable
\* file that has no text at all, which gives one Document with text "".
C21_AbsentContentIsEmptyText ==
    /\ C21_PdfPagesKept
    /\ (pcFile = "returned" /\ upload.parse = "ok" /\ ReadableWithoutText(upload))
          => load_result = Documents(<<TextDocument(<<>>)>>)

\* C22: whenever a call of load_document or of the image extractor has
\* returned, no temporary file it created is left on disk, whatever path
\* the call took (normal return, parser failure, failure while writing).
C22_TempFilesDeleted == temp_files = {}

\* the images of two extractions that returned images
SameImage(a, b) == a.page_number = b.page_number /\ a.image_index = b.image_index

\* C23: the image_id depends on (file_id, page_number, image_index) only:
\* two extractions of the same file through the same path give the same
\* image its id again, and two different images never share an id.
C23_ImageIdDeterministic ==
    \A r1, r2 \in 1..Len(extractions) :
        extractions[r1].path = extractions[r2].path
            => \A k1 \in 1..Len(extractions[r1].images), k2 \in 1..Len(extractions[r2].images) :
                   SameImage(extractions[r1].images[k1], extractions[r2].images[k2])
                       <=> extractions[r1].images[k1].image_id
                              = extractions[r2].images[k2].image_id

(***************************************************************************)
(* _get_text_blocks_outside_tables                                         *)
(*                                                                         *)
(* Horizontal coordinates are whole layout units; vertical coordinates are *)
(* in hundredths of a unit, so that round(top, 1) does something.  No top  *)
(* of the inputs ends in 5 hundredths (a tie of the rounding).             *)
(***************************************************************************)
\* word_in_bbox(word, bbox), with both midpoints doubled
word_in_bbox(word, bbox) ==
    /\ 2 * bbox[1] <= word.x0 + word.x1
    /\ word.x0 + word.x1 <= 2 * bbox[3]
    /\ 2 * bbox[2] <= word.top + word.bottom
    /\ word.top + word.bottom <= 2 * bbox[4]

\* round(word["top"], 1), in hundredths
Round1(top) == ((top + 5) \div 10) * 10

\* sorted(lines.keys())
RECURSIVE SortedKeys(_)
SortedKeys(keys) ==
    IF keys = {} THEN <<>>
    ELSE <<SetMin(keys)>> \o SortedKeys(keys \ {SetMin(keys)})

InsertByX0(sorted, e) ==
    LET k == Cardinality({j \in 1..Len(sorted) : sorted[j].x0 <= e.x0})
    IN  SubSeq(sorted, 1, k) \o <<e>> \o SubSeq(sorted, k + 1, Len(sorted))

\* sorted(lines[y], key=lambda x: x[0])
RECURSIVE SortByX0(_)
SortByX0(line_words) ==
    IF line_words = <<>> THEN <<>>
    ELSE InsertByX0(SortByX0(SubSeq(line_words, 1, Len(line_words) - 1)), Last(line_words))

\* line_text of the line with key y
LineText(words, y) ==
    LET OnLine(w) == Round1(w.top) = y
        line_words == SortByX0(SelectSeq(words, OnLine))
    IN  JoinSeq([n \in 1..Len(line_words) |-> line_words[n].text], <<Ch(" ")>>)

\* a gap of 20 units already starts a new block
GapOf20StartsBlock(y, prev_y) == y - prev_y >= 2000

\* (y - prev_y) > 20
GapStartsBlock(y, prev_y) == y - prev_y > 2000

\* the dict appended to text_blocks for current_block
TextBlock(current_block) ==
    [y |-> current_block[1].y,
     content |-> JoinSeq([n \in 1..Len(current_block) |-> current_block[n].text], <<NL>>)]

\* the loop over sorted(lines.keys()) from the k-th line on, and the final
\* append
RECURSIVE BlocksLoop(_, _, _, _)
BlocksLoop(lines, k, current_block, blocks) ==
    IF k > Len(lines)
    THEN IF current_block # <<>> THEN Append(blocks, TextBlock(current_block)) ELSE blocks
    ELSE IF k > 1 /\ GapStartsBlock(lines[k].y, lines[k - 1].y)
    THEN BlocksLoop(lines, k + 1, <<lines[k]>>,
                    IF current_block # <<>> THEN Append(blocks, TextBlock(current_block))
                    ELSE blocks)
    ELSE BlocksLoop(lines, k + 1, Append(current_block, lines[k]), blocks)

\* _get_text_blocks_outside_tables(page, table_bboxes) when extract_words
\* returned `words_of_page`
get_text_blocks_outside_tables(words_of_page, bboxes) ==
    LET Outside(w) == ~\E b \in 1..Len(bboxes) : word_in_bbox(w, bboxes[b])
        words == SelectSeq(words_of_page, Outside)
        ys == SortedKeys({Round1(words[n].top) : n \in 1..Len(words)})
        lines == [n \in 1..Len(ys) |-> [y |-> ys[n], text |-> LineText(words, ys[n])]]
    IN  IF words = <<>> THEN <<>> ELSE BlocksLoop(lines, 1, <<>>, <<>>)

MaxWords == 3

Word(x0, top, text) ==
    [x0 |-> x0, x1 |-> x0 + 10, top |-> top, bottom |-> top + 1000, text |-> <<Ch(text)>>]

WordPool ==
    {Word(10, top, "a") : top \in {5000, 5004, 7000, 7006}}
    \cup {Word(15, top, "b") : top \in {5000, 5004, 7000, 7006}}
    \cup {Word(30, top, "c") : top \in {5000, 5004, 7000, 7006}}

\* a table from x 20 to 100 and from y 40 to 55
TableBboxes == {<<>>, << <<20, 4000, 100, 5500>> >>}

InitWords ==
    /\ pcWords = "called"
    /\ all_words \in SeqsUpTo(WordPool, MaxWords)
    /\ table_bboxes \in TableBboxes
    /\ word_blocks = <<>>
    /\ IdleLink
    /\ IdlePage
    /\ IdleDocs
    /\ IdleJob
    /\ IdleTitles
    /\ IdleFile
    /\ IdleDrive
    /\ IdleHwp5

\* one call; page.extract_words() returns the words or raises
GetTextBlocks ==
    /\ pcWords = "called"
    /\ \E raises \in BOOLEAN :
          /\ pcWords' = IF raises THEN "extract_words raised" ELSE "returned"
          /\ word_blocks' = IF raises THEN <<>>
                            ELSE get_text_blocks_outside_tables(all_words, table_bboxes)
    /\ UNCHANGED <<all_words, table_bboxes, linkVars, pageVars, docsVars, jobVars,
                   titleVars, fileVars, driveVars, hwp5Vars>>

NextWords == GetTextBlocks

SpecWords == InitWords /\ [][NextWords]_vars

(***************************************************************************)
(* Claims about the text blocks                                            *)
(***************************************************************************)
\* both midpoints of the word lie inside the box, borders included
MidpointsInside(w, bbox) ==
    /\ 2 * bbox[1] <= w.x0 + w.x1 /\ w.x0 + w.x1 <= 2 * bbox[3]
    /\ 2 * bbox[2] <= w.top + w.bottom /\ w.top + w.bottom <= 2 * bbox[4]

\* the positions of the words that are in no table
KeptWords ==
    {n \in 1..Len(all_words) :
        \A b \in 1..Len(table_bboxes) : ~MidpointsInside(all_words[n], table_bboxes[b])}

LineTops == {Round1(all_words[n].top) : n \in KeptWords}

\* the lines that start a block: no line lies at most 20 units above them
BlockStarts == {y \in LineTops : \A y2 \in LineTops : y2 < y => y - y2 > 2000}

BlockStartOf(y) == SetMax({s \in BlockStarts : s <= y})

\* the words of line y by x0, words of equal x0 in the order of the page
WordsOfLine(y) == {n \in KeptWords : Round1(all_words[n].top) = y}
Before(m, n) ==
    \/ all_words[m].x0 < all_words[n].x0
    \/ all_words[m].x0 = all_words[n].x0 /\ m < n
ExpectedLine(y) ==
    LET S == WordsOfLine(y)
        nth(k) == CHOOSE n \in S : Cardinality({m \in S : Before(m, n)}) = k - 1
    IN  JoinSeq([k \in 1..Cardinality(S) |-> all_words[nth(k)].text], <<Ch(" ")>>)

ExpectedContent(start) ==
    LET ys == SortedKeys({y \in LineTops : BlockStartOf(y) = start})
    IN  JoinSeq([k \in 1..Len(ys) |-> ExpectedLine(ys[k])], <<NL>>)

CaptionFilesIn(s) == {s[j][2] : j \in {k \in 1..Len(s) : s[k][1] = "caption"}}

MaxDriveFiles == 2
MaxRequests == 2

\* drive_loader.list_files(SUPPORTED_MIME_TYPES): the files of the folder
DriveListing == [k \in 1..MaxDriveFiles |-> DriveFile(k, FALSE)]

\* line 707: [f for f in files if f['id'] not in processed_files]
NewFiles(files, processed) ==
    LET IsNew(f) == f.id \notin processed
    IN  SelectSeq(files, IsNew)

InitDrive ==
    /\ pcJob = <<>>
    /\ new_files = <<>>
    /\ file_idx = <<>>
    /\ drive_jobs = <<>>
    /\ tenant_active_job = <<>>
    /\ all_documents = <<>>
    /\ successful_file_ids = <<>>
    /\ poll_response = [status |-> "not polled"]
    /\ processed_files \in SUBSET {DriveListing[k].id : k \in 1..MaxDriveFiles}
    /\ stored_by = {}
    /\ IdleLink
    /\ IdlePage
    /\ IdleDocs
    /\ IdleTitles
    /\ IdleFile
    /\ IdleWords
    /\ IdleHwp5

\* lines 691-722: a folder-index request; nothing looks at tenant_active_job
FolderIndexRequest ==
    /\ Len(pcJob) < MaxRequests
    /\ LET files == NewFiles(DriveListing, processed_files) IN
          /\ files # <<>>
          /\ new_files' = Append(new_files, files)
    /\ pcJob' = Append(pcJob, "created")
    /\ file_idx' = Append(file_idx, 1)
    /\ all_documents' = Append(all_documents, <<>>)
    /\ successful_file_ids' = Append(successful_file_ids, <<>>)
    /\ UNCHANGED <<drive_jobs, tenant_active_job, poll_response, driveVars>>

\* lines 522-532 for job j; tasks start in the order of their creation
TaskRegisters(j) ==
    /\ pcJob[j] = "created"
    /\ \A i \in 1..(j - 1) : pcJob[i] # "created"
    /\ drive_jobs' = Append(drive_jobs, NewJob(new_files[j]))
    /\ tenant_active_job' = (TenantId :> j) @@ tenant_active_job
    /\ pcJob' = [pcJob EXCEPT ![j] = "authenticate"]
    /\ UNCHANGED <<new_files, file_idx, all_documents, successful_file_ids,
                   poll_response, driveVars>>

\* line 617: tenant_active_job.pop(tenant_id, None)
PopActiveJob(active, tenant) ==
    [t \in DOMAIN active \ {tenant} |-> active[t]]

\* lines 535-540; when authenticate raises, lines 612-617
TaskAuthenticates(j) ==
    /\ pcJob[j] = "authenticate"
    /\ \E ok \in BOOLEAN :
          IF ok
          THEN /\ pcJob' = [pcJob EXCEPT ![j] = "files"]
               /\ UNCHANGED <<drive_jobs, tenant_active_job>>
          ELSE /\ drive_jobs' = [drive_jobs EXCEPT ![j] = JobFailed(@)]
               /\ tenant_active_job' = PopActiveJob(tenant_active_job, TenantId)
               /\ pcJob' = [pcJob EXCEPT ![j] = "done"]
    /\ UNCHANGED <<new_files, file_idx, all_documents, successful_file_ids,
                   poll_response, driveVars>>

\* lines 542-600: one iteration of the loop of job j
TaskProcessesFile(j) ==
    /\ pcJob[j] = "files"
    /\ \E o \in FileOutcomes :
          LET f == new_files[j][file_idx[j]] IN
          /\ drive_jobs' = [drive_jobs EXCEPT ![j] = JobAfterFile(@, f, o)]
          /\ all_documents' =
                IF o = "documents"
                THEN [all_documents EXCEPT ![j] = Append(@, f.id)]
                ELSE all_documents
          /\ successful_file_ids' =
                IF o = "documents"
                THEN [successful_file_ids EXCEPT ![j] = Append(@, f.id)]
                ELSE successful_file_ids
    /\ file_idx' = [file_idx EXCEPT ![j] = @ + 1]
    /\ pcJob' = [pcJob EXCEPT ![j] =
                    IF file_idx[j] = Len(new_files[j]) THEN "store" ELSE "files"]
    /\ UNCHANGED <<new_files, tenant_active_job, poll_response, driveVars>>

\* lines 602-603: process_and_store_documents returns True, or False when
\* the captioning or the vector store raised (rag_chain.py:137-150)
TaskStores(j) ==
    /\ pcJob[j] = "store"
    /\ \E success \in BOOLEAN :
          /\ success => all_documents[j] # <<>>
          /\ stored_by' =
                IF success
                THEN stored_by \cup {<<j, all_documents[j][k]>> :
                                        k \in 1..Len(all_documents[j])}
                ELSE stored_by
          /\ pcJob' = [pcJob EXCEPT ![j] = IF success THEN "save" ELSE "finish"]
    /\ UNCHANGED <<new_files, file_idx, drive_jobs, tenant_active_job,
                   all_documents, successful_file_ids, poll_response,
                   processed_files>>

\* lines 604-609: save_processed_files inserts the ids, or prints the error
\* and returns False (rag_chain.py:332-354)
TaskSaves(j) ==
    /\ pcJob[j] = "save"
    /\ \E saved \in BOOLEAN :
          processed_files' =
              IF saved
              THEN processed_files \cup
                      {successful_file_ids[j][k] : k \in 1..Len(successful_file_ids[j])}
              ELSE processed_files
    /\ pcJob' = [pcJob EXCEPT ![j] = "finish"]
    /\ UNCHANGED <<new_files, file_idx, drive_jobs, tenant_active_job,
                   all_documents, successful_file_ids, poll_response, stored_by>>

\* lines 611 and 616-617
TaskFinishes(j) ==
    /\ pcJob[j] = "finish"
    /\ drive_jobs' = [drive_jobs EXCEPT ![j] = JobCompleted(@)]
    /\ tenant_active_job' = PopActiveJob(tenant_active_job, TenantId)
    /\ pcJob' = [pcJob EXCEPT ![j] = "done"]
    /\ UNCHANGED <<new_files, file_idx, all_documents, successful_file_ids,
                   poll_response, driveVars>>

NextDrive ==
    \/ FolderIndexRequest /\ UNCHANGED <<linkVars, pageVars, docsVars, titleVars, fileVars, wordVars, hwp5Vars>>
    \/ \E j \in 1..Len(pcJob) : TaskRegisters(j) /\ UNCHANGED <<linkVars, pageVars, docsVars, titleVars, fileVars, wordVars, hwp5Vars>>
    \/ \E j \in 1..Len(pcJob) : TaskAuthenticates(j) /\ UNCHANGED <<linkVars, pageVars, docsVars, titleVars, fileVars, wordVars, hwp5Vars>>
    \/ \E j \in 1..Len(pcJob) : TaskProcessesFile(j) /\ UNCHANGED <<linkVars, pageVars, docsVars, titleVars, fileVars, wordVars, hwp5Vars>>
    \/ \E j \in 1..Len(pcJob) : TaskStores(j) /\ UNCHANGED <<linkVars, pageVars, docsVars, titleVars, fileVars, wordVars, hwp5Vars>>
    \/ \E j \in 1..Len(pcJob) : TaskSaves(j) /\ UNCHANGED <<linkVars, pageVars, docsVars, titleVars, fileVars, wordVars, hwp5Vars>>
    \/ \E j \in 1..Len(pcJob) : TaskFinishes(j) /\ UNCHANGED <<linkVars, pageVars, docsVars, titleVars, fileVars, wordVars, hwp5Vars>>
    \/ PollStatus /\ UNCHANGED <<linkVars, pageVars, docsVars, titleVars, fileVars, wordVars, driveVars, hwp5Vars>>

SpecDrive == InitDrive /\ [][NextDrive]_vars

\* the ids of the registered jobs, and those that have not ended
Registered == 1..Len(drive_jobs)
Running == {j \in Registered : drive_jobs[j].status = "running"}

\* C26: a file that is not in processed_files is picked up by at most one
\* indexing job: whatever the interleaving of two folder-index requests, no
\* file is downloaded, chunked and stored by two jobs.
C26_FileStoredByOneJob ==
    \A j1 \in 1..Len(pcJob) : \A j2 \in 1..Len(pcJob) :
        \A f \in 1..MaxDriveFiles :
            (<<j1, f>> \in stored_by /\ <<j2, f>> \in stored_by) => j1 = j2

\* C27: a status poll reports the tenant's most recently started job, with
\* status running while it runs and with its terminal state afterwards:
\* never an older job, never idle while a job is running.
C27_PollReportsLatestJob ==
    drive_jobs # <<>> =>
        StatusResponse(drive_jobs, tenant_active_job, TenantId)
            = JobResponse(drive_jobs, Len(drive_jobs))

\* C28: when a job ends with status completed, every file it reports with
\* success: true has had its chunks accepted by the store and its id saved
\* in processed_files, so that a later request does not select it again.
C28_SuccessMeansStoredAndSaved ==
    \A j \in Registered :
        drive_jobs[j].status = "completed" =>
            \A k \in 1..Len(drive_jobs[j].results) :
                drive_jobs[j].results[k].success =>
                    /\ <<j, drive_jobs[j].results[k].file_id>> \in stored_by
                    /\ drive_jobs[j].results[k].file_id \in processed_files

(***************************************************************************)
(* Placeholder tokens and the Chunker                                      *)
(***************************************************************************)
IsTokenItem(x) == x \in {TokOpen, TokClose} \/ x[1] = "p_i"

\* the number of items of s that belong to a placeholder token
TokenItems(s) == Cardinality({j \in 1..Len(s) : IsTokenItem(s[j])})

\* the number of whole tokens p{p}_i{i} in s
Occurrences(s, key) ==
    Cardinality({n \in 1..Len(FindAll(s)) : FindAll(s)[n] = key})

RECURSIVE SumOccurrences(_, _)
SumOccurrences(cs, key) ==
    IF cs = <<>> THEN 0
    ELSE Occurrences(Head(cs).page_content, key) + SumOccurrences(Tail(cs), key)

\* no chunk holds a piece of a token that is not a whole token
NoTokenFragment ==
    \A i \in 1..Len(chunks) :
        TokenItems(chunks[i].page_content) = 3 * Len(FindAll(chunks[i].page_content))

\* every token of a Document is in exactly one of the Document's chunks
TokenInOneChunk ==
    \A d \in 1..Len(loaded) :
        \A key \in Range(FindAll(loaded[d].page_content)) :
            SumOccurrences(ChunksFrom(chunks, d), key) = 1

\* C29: the Chunker never cuts through a placeholder token: whatever the
\* page text, chunk_size and chunk_overlap, every token of the Document
\* text is whole in exactly one chunk; no chunk holds a fragment the
\* linker's pattern cannot match, no image is linked to two chunks.
C29_TokensWholeInOneChunk ==
    pcDocs = "done" => NoTokenFragment /\ TokenInOneChunk

(***************************************************************************)
(* extract_text_from_hwp5 step by step: the section loop (hwp5.py:125-174) *)
(* and the record loop of _parse_text_from_stream (66-121)                 *)
(***************************************************************************)
MaxSectionIndex == 2

\* section streams: records that are read, of size 0, overrunning, and a
\* tail shorter than a header
LoopStreams ==
    {JoinSeq(records, <<>>) :
        records \in SeqsUpTo({TextRecordA, ZeroSizeRecord, OverrunRecord, StrayBytes},
                             MaxRecords)}

InitHwp5 ==
    /\ pcHwp5 = "probe"
    /\ stream_names \in SUBSET (0..MaxSectionIndex)
    /\ section_index = 0
    /\ decompressed_data = <<>>
    /\ stream_offset = 0
    /\ IdleLink
    /\ IdlePage
    /\ IdleDocs
    /\ IdleJob
    /\ IdleTitles
    /\ IdleFile
    /\ IdleWords
    /\ IdleDrive

\* lines 129-132: ole.exists(BodyText/Section{section_index}) is false
SectionMissing ==
    /\ pcHwp5 = "probe"
    /\ section_index \notin stream_names
    /\ pcHwp5' = "returned"
    /\ UNCHANGED <<stream_names, section_index, decompressed_data, stream_offset>>

\* lines 137-160: the stream is read and decompressed, the parser starts
OpenSection ==
    /\ pcHwp5 = "probe"
    /\ section_index \in stream_names
    /\ decompressed_data' \in LoopStreams
    /\ stream_offset' = 0
    /\ pcHwp5' = "records"
    /\ UNCHANGED <<stream_names, section_index>>

\* lines 66-119: one iteration of `while offset < len(data)` that does not
\* break
RecordIteration ==
    /\ pcHwp5 = "records"
    /\ stream_offset < Len(decompressed_data)
    /\ UnpackFrom(decompressed_data, stream_offset) # None
    /\ stream_offset' = RecordStep(decompressed_data, stream_offset).offset
    /\ UNCHANGED <<pcHwp5, stream_names, section_index, decompressed_data>>

\* lines 66-72 and 163-170: the loop ends (offset at the end, or
\* struct.error); section_index += 1
StreamEnds ==
    /\ pcHwp5 = "records"
    /\ \/ stream_offset >= Len(decompressed_data)
       \/ UnpackFrom(decompressed_data, stream_offset) = None
    /\ section_index' = section_index + 1
    /\ pcHwp5' = "probe"
    /\ UNCHANGED <<stream_names, decompressed_data, stream_offset>>

Hwp5Step ==
    /\ SectionMissing \/ OpenSection \/ RecordIteration \/ StreamEnds
    /\ UNCHANGED <<linkVars, pageVars, docsVars, jobVars, titleVars, fileVars,
                   wordVars, driveVars>>

NextHwp5 ==
    \/ SectionMissing /\ UNCHANGED <<linkVars, pageVars, docsVars, jobVars, titleVars, fileVars, wordVars, driveVars>>
    \/ OpenSection /\ UNCHANGED <<linkVars, pageVars, docsVars, jobVars, titleVars, fileVars, wordVars, driveVars>>
    \/ RecordIteration /\ UNCHANGED <<linkVars, pageVars, docsVars, jobVars, titleVars, fileVars, wordVars, driveVars>>
    \/ StreamEnds /\ UNCHANGED <<linkVars, pageVars, docsVars, jobVars, titleVars, fileVars, wordVars, driveVars>>

SpecHwp5 == InitHwp5 /\ [][NextHwp5]_vars

\* the function runs on: no call in it blocks
SpecHwp5Fair == SpecHwp5 /\ WF_vars(Hwp5Step)

\* the first N for which BodyText/Section{N} is missing
FirstMissingSection ==
    CHOOSE n \in 0..(MaxSectionIndex + 1) :
        n \notin stream_names /\ \A k \in 0..(n - 1) : k \in stream_names

\* within one stream the offset moves forward by at least a header
OffsetAdvances ==
    (pcHwp5 = "records" /\ pcHwp5' = "records")
        => stream_offset' >= stream_offset + 4

\* C30: extract_text_from_hwp5 terminates on every input: every iteration
\* of the record loop moves the read offset forward by at least 4, also for
\* a record of size 0 or one that overruns the data, never backwards; the
\* section loop stops at the first missing BodyText/Section{N}.
C30_Terminates ==
    /\ [][OffsetAdvances]_vars
    /\ <>[](pcHwp5 = "returned" /\ section_index = FirstMissingSection)

\* Section0 held a record of size 0 after a text record, Section1 is
\* missing although Section2 exists: the function has returned
C30_Witness ==
    /\ pcHwp5 = "returned"
    /\ stream_names = {0, 2}
    /\ section_index = 1
    /\ decompressed_data = TextRecordA \o ZeroSizeRecord \o OverrunRecord
    /\ stream_offset >= Len(decompressed_data) - 3

====
